---- MODULE Spec2Model ----
(***************************************************************************)
(* Model of the generic CRUD router factory of jm-api                      *)
(* (src/jm_api/api/generic/router.py, filters.py) instantiated for the Bot *)
(* resource (src/jm_api/models/bot.py, src/jm_api/schemas/bot.py) and for  *)
(* the Gadget resources of the generic router tests, over a relational     *)
(* table reached through one SQLAlchemy session.                           *)
(*                                                                         *)
(* Strings that are only compared for equality are TLA+ strings; strings   *)
(* that are inspected character by character (ids, last_run_log, search    *)
(* values) are sequences of one-character strings.  A nullable value is a  *)
(* sequence of length 0 (None / SQL NULL) or 1 (the value).                *)
(***************************************************************************)
EXTENDS Integers, Sequences, FiniteSets, TLC

VARIABLES
    table,      \* committed rows of the table of the resource (a set of records)
    session,    \* the SQLAlchemy session handed to the handlers
    now,        \* the wall clock read by utcnow()
    resp,       \* the last request served and its response
    pre,        \* history: the table as it was when the last request arrived
    deleted,    \* history: the ids removed by a successful delete so far
    gen,        \* the generator that hands the session to the request in flight
    flight      \* the requests being served side by side, each on its own session

vars == <<table, session, now, resp, pre, deleted, gen, flight>>

----------------------------------------------------------------------------
(* Bounds of the model *)

MaxTime == 1
MaxTotal == 45
MaxFields == 3
MaxRows == 4

----------------------------------------------------------------------------
(* Nullable values *)

None == <<>>
Some(v) == <<v>>
IsNone(o) == Len(o) = 0
Val(o) == o[1]

Min(a, b) == IF a <= b THEN a ELSE b

----------------------------------------------------------------------------
(* Characters, identifiers *)

Digits == {"0", "1", "2", "3", "4", "5", "6", "7", "8", "9"}
LowerLetters == {"a", "b", "c", "d", "e", "f", "g", "h", "i", "j", "k", "l", "m",
                 "n", "o", "p", "q", "r", "s", "t", "u", "v", "w", "x", "y", "z"}
UpperLetters == {"A", "B", "C", "D", "E", "F", "G", "H", "I", "J", "K", "L", "M",
                 "N", "O", "P", "Q", "R", "S", "T", "U", "V", "W", "X", "Y", "Z"}

\* db/base.py: _ID_ALPHABET = string.ascii_lowercase + string.digits
ID_ALPHABET == LowerLetters \cup Digits

\* db/base.py: range(32) in generate_id
IdLen == 32

\* generate_id(): 32 independent draws from the alphabet; `choice` is the
\* sequence of draws made by secrets.choice.
generate_id(choice) == [i \in 1..IdLen |-> choice[i]]

\* The draws the model lets secrets.choice make.
GenChoices == { [i \in 1..IdLen |-> "a"],
                [i \in 1..IdLen |-> IF i % 2 = 1 THEN "b" ELSE "7"] }

\* The regular expression ^[a-zA-Z0-9]{32}$ : its character class and its
\* repetition count.
PatternClass == LowerLetters \cup UpperLetters \cup Digits
PatternLen == 32
MatchesPattern(s) == /\ Len(s) = PatternLen
                     /\ \A i \in 1..Len(s) : s[i] \in PatternClass

\* id_pattern default of each router factory (three separate defaults).
DigitsOnlyPattern(s) == /\ Len(s) = PatternLen
                        /\ \A i \in 1..Len(s) : s[i] \in Digits
LowerOnlyPattern(s) == /\ Len(s) = PatternLen
                       /\ \A i \in 1..Len(s) : s[i] \in ID_ALPHABET
read_id_pattern(s) == MatchesPattern(s)
update_id_pattern(s) == MatchesPattern(s)
delete_id_pattern(s) == MatchesPattern(s)

----------------------------------------------------------------------------
(* The resources handed to the factories and their schemas *)

\* A resource is named by the __tablename__ of its mapped class: Bot
\* (models/bot.py), the Gadget of tests/test_generic_create_router.py and the
\* Gadget of tests/test_generic_delete_router.py.
Models == {"bots", "gadgets_create", "gadgets_delete"}

\* resource_name= of the router factories.
resource_name == "Bot"
ResourceName(model) == IF model = "bots" THEN resource_name ELSE "Gadget"

\* The dataclass __init__ of a mapped class called with keyword arguments:
\* a field without a default is a required argument, and a missing one is
\* a TypeError raised before any instance exists.
Constructed(item) == [error |-> "", item |-> Some(item)]
ConstructorRaises == [error |-> "TypeError", item |-> None]

\* Bot(**kwargs).  rig_id and last_run_at have no default; kill_switch
\* defaults to False and last_run_log to "".  id, create_at, last_update_at
\* are init=False and come from their default factories.
BotRequiredArgs == {"rig_id", "last_run_at"}
NewBot(kwargs, id, t_create, t_update) ==
    IF ~(BotRequiredArgs \subseteq DOMAIN kwargs)
    THEN ConstructorRaises
    ELSE Constructed(
           [ id             |-> id,
             create_at      |-> t_create,
             last_update_at |-> t_update,
             rig_id         |-> kwargs.rig_id,
             last_run_at    |-> kwargs.last_run_at,
             kill_switch    |-> IF "kill_switch" \in DOMAIN kwargs
                                THEN kwargs.kill_switch ELSE FALSE,
             last_run_log   |-> IF "last_run_log" \in DOMAIN kwargs
                                THEN kwargs.last_run_log ELSE Some(<<>>) ])

\* Gadget(**kwargs).  name has no default; active defaults to True and
\* description to None.
GadgetRequiredArgs == {"name"}
NewGadget(kwargs, id, t_create, t_update) ==
    IF ~(GadgetRequiredArgs \subseteq DOMAIN kwargs)
    THEN ConstructorRaises
    ELSE Constructed(
           [ id             |-> id,
             create_at      |-> t_create,
             last_update_at |-> t_update,
             name           |-> kwargs.name,
             active         |-> IF "active" \in DOMAIN kwargs
                                THEN kwargs.active ELSE TRUE,
             description    |-> IF "description" \in DOMAIN kwargs
                                THEN kwargs.description ELSE None ])

\* model(**kwargs) for the model handed to the factory.
ModelInit(model, kwargs, id, t_create, t_update) ==
    IF model = "bots"
    THEN NewBot(kwargs, id, t_create, t_update)
    ELSE NewGadget(kwargs, id, t_create, t_update)

\* BotResponse.model_validate(item): from_attributes projection.
BotResponse(item) ==
    [ id             |-> item.id,
      rig_id         |-> item.rig_id,
      last_run_at    |-> item.last_run_at,
      kill_switch    |-> item.kill_switch,
      last_run_log   |-> item.last_run_log,
      create_at      |-> item.create_at,
      last_update_at |-> item.last_update_at ]

\* A JSON body is a function from the keys present to nullable values.
Has(body, k) == k \in DOMAIN body

\* BotCreate: rig_id: str (required); kill_switch: bool = False;
\* last_run_log: str | None = None.  Unknown keys are ignored.
BotCreateValid(body) ==
    /\ Has(body, "rig_id") /\ ~IsNone(body["rig_id"])
    /\ Has(body, "kill_switch") => ~IsNone(body["kill_switch"])

BotCreateDump(body) ==
    [ rig_id       |-> Val(body["rig_id"]),
      kill_switch  |-> IF Has(body, "kill_switch") THEN Val(body["kill_switch"]) ELSE FALSE,
      last_run_log |-> IF Has(body, "last_run_log") THEN body["last_run_log"] ELSE None ]

\* GadgetResponse.model_validate(item): from_attributes projection.
GadgetResponse(item) ==
    [ id             |-> item.id,
      name           |-> item.name,
      active         |-> item.active,
      description    |-> item.description,
      create_at      |-> item.create_at,
      last_update_at |-> item.last_update_at ]

\* GadgetCreate: name: str (required); active: bool = True;
\* description: str | None = None.  Unknown keys are ignored.
GadgetCreateValid(body) ==
    /\ Has(body, "name") /\ ~IsNone(body["name"])
    /\ Has(body, "active") => ~IsNone(body["active"])

GadgetCreateDump(body) ==
    [ name        |-> Val(body["name"]),
      active      |-> IF Has(body, "active") THEN Val(body["active"]) ELSE TRUE,
      description |-> IF Has(body, "description") THEN body["description"] ELSE None ]

\* create_schema= and response_schema= of the factories, per resource.
CreateSchemaValid(model, body) ==
    IF model = "bots" THEN BotCreateValid(body) ELSE GadgetCreateValid(body)
CreateSchemaDump(model, body) ==
    IF model = "bots" THEN BotCreateDump(body) ELSE GadgetCreateDump(body)
ResponseSchema(model, item) ==
    IF model = "bots" THEN BotResponse(item) ELSE GadgetResponse(item)

\* BotUpdate: every field optional; reject_none_for_non_nullable runs (mode
\* "before") on rig_id and kill_switch whenever the key is present.
BotUpdateFields == {"rig_id", "kill_switch", "last_run_log"}
NonNullableUpdateFields == {"rig_id", "kill_switch"}
NoNullRejected(body, k) == FALSE
reject_none_for_non_nullable(body, k) == Has(body, k) /\ IsNone(body[k])
BotUpdateValid(body) ==
    \A k \in NonNullableUpdateFields : ~reject_none_for_non_nullable(body, k)

\* payload.model_dump(exclude_unset=True): the keys of the schema that the
\* body set, each with its (nullable) Python value.
DumpWithCreateAt(body) ==
    [k \in (DOMAIN body) \cap (BotUpdateFields \cup {"create_at"}) |-> body[k]]
BotUpdateDump(body) ==
    [k \in (DOMAIN body) \cap BotUpdateFields |-> body[k]]

\* Columns of the bots table that accept NULL.
NullableColumns == {"last_run_at", "last_run_log"}

\* for field, value in update_data.items(): setattr(item, field, value)
SkipNoneAttrs(item, update_data) ==
    [f \in DOMAIN item |->
        IF f \in DOMAIN update_data
        THEN (IF f \in NullableColumns
              THEN (IF IsNone(update_data[f]) THEN item[f] ELSE update_data[f])
              ELSE Val(update_data[f]))
        ELSE item[f]]
SetAttrs(item, update_data) ==
    [f \in DOMAIN item |->
        IF f \in DOMAIN update_data
        THEN (IF f \in NullableColumns THEN update_data[f] ELSE Val(update_data[f]))
        ELSE item[f]]

\* The UPDATE of a flush violates NOT NULL when None was set on a column
\* that does not accept NULL.
NotNullViolation(update_data) ==
    \E f \in DOMAIN update_data : f \notin NullableColumns /\ IsNone(update_data[f])

----------------------------------------------------------------------------
(* The session: pending (new) instances and the failed-transaction flag *)

CleanSession == [new |-> <<>>, inactive |-> FALSE]

\* db.get(model, item_id): primary-key lookup; None when no row.
DbGet(tbl, item_id) ==
    IF \E r \in tbl : r.id = item_id
    THEN Some(CHOOSE r \in tbl : r.id = item_id)
    ELSE None

\* db.add(item)
SessionAdd(s, item) == [s EXCEPT !.new = Append(@, item)]

\* The columns under a unique constraint, in the order SQLite checks them on
\* an INSERT (the indexes of the table, the last declared first): the
\* primary key of every table, and before it uq_gadgets_name of
\* gadgets_create, which the CREATE TABLE declares after PRIMARY KEY.
UniqueColumns(model) ==
    IF model = "gadgets_create" THEN <<"name", "id">> ELSE <<"id">>

\* The first unique column, in that order, on which a pending row collides
\* with a stored row or with another pending row (the column the driver's
\* message names); None when the INSERTs go through.
CollidesOn(tbl, new, col) ==
    \/ \E i \in 1..Len(new) : \E r \in tbl : r[col] = new[i][col]
    \/ \E i, j \in 1..Len(new) : i # j /\ new[i][col] = new[j][col]
ViolatedColumn(model, tbl, new) ==
    LET cols == UniqueColumns(model)
        hit == {k \in 1..Len(cols) : CollidesOn(tbl, new, cols[k])}
    IN IF hit = {} THEN None
       ELSE Some(cols[CHOOSE k \in hit : \A h \in hit : k <= h])

\* The INSERTs of a flush violate a unique constraint.
UpsertNeverConflicts(model, tbl, new) == FALSE
InsertConflicts(model, tbl, new) == ~IsNone(ViolatedColumn(model, tbl, new))

\* str(exc.orig) of the driver's IntegrityError.
IntegrityOrig(model, col) == <<"UNIQUE constraint failed: ", model, ".", col>>

\* db.commit() with pending instances: flush the INSERTs and commit, or raise
\* IntegrityError leaving the transaction failed until rollback().
SessionCommitNew(model, tbl, s) ==
    IF s.inactive
    THEN [error |-> "PendingRollbackError", orig |-> <<>>, table |-> tbl, session |-> s]
    ELSE IF InsertConflicts(model, tbl, s.new)
    THEN [error |-> "IntegrityError",
          orig |-> IntegrityOrig(model, Val(ViolatedColumn(model, tbl, s.new))),
          table |-> tbl, session |-> [s EXCEPT !.inactive = TRUE]]
    ELSE [error |-> "", orig |-> <<>>,
          table |-> tbl \cup {s.new[i] : i \in 1..Len(s.new)},
          session |-> [s EXCEPT !.new = <<>>]]

\* db.rollback(): pending instances are expunged, the session is usable again.
NoRollback(s) == s
SessionRollback(s) == CleanSession

\* before_update listener of TimestampedIdBase.
NoTouch(target, t) == target
touch_last_update_at(target, t) == [target EXCEPT !.last_update_at = t]

\* db.commit() after the setattr loop of update_item: the instance is dirty
\* iff at least one attribute was set; a dirty instance gets before_update
\* and its row is rewritten, a clean one causes no flush at all.
IsDirty(update_data) == DOMAIN update_data # {}
UpdateEveryRow(tbl, old, item, update_data, t) ==
    IF IsDirty(update_data)
    THEN {touch_last_update_at(r, t) : r \in tbl \ {old}} \cup {touch_last_update_at(item, t)}
    ELSE tbl
CommitUpdate(tbl, old, item, update_data, t) ==
    IF IsDirty(update_data)
    THEN (tbl \ {old}) \cup {touch_last_update_at(item, t)}
    ELSE tbl

\* db.commit() raising in update_item: the flush or the COMMIT failed, the
\* database keeps no part of the transaction, and the session's transaction
\* is failed until rollback().
PartialWrite(tbl, old, item) == (tbl \ {old}) \cup {item}
FailedCommit(tbl, old, item) == tbl
FailedSession(s) == [s EXCEPT !.inactive = TRUE]

\* db.delete(item); db.commit()
KeepRow(tbl, item) == tbl
CommitDelete(tbl, item) == tbl \ {item}

----------------------------------------------------------------------------
(* The session dependency (db/session.py get_db, tests/conftest.py) *)

\* Positions of the generator: "start" (not entered), "yield" (suspended at
\* the yield, the handler holds the session), "resume" (the handler is done
\* and its outcome is delivered at the yield), "finally", "end".
\* exc is the exception thrown in at the yield ("" for a normal return).
Generator(fixture, pc) ==
    [fixture |-> fixture, pc |-> pc, exc |-> "", rolled_back |-> FALSE, closed |-> FALSE]

\* conftest.py override_get_db: yields the one db_session of the test to
\* every request and does nothing after the yield.
override_get_db == Generator(TRUE, "yield")

\* The exception thrown into the generator at its yield for a request
\* answered with the given status.  A request rejected by validation (422)
\* never reaches the handler: RequestValidationError is raised by the
\* framework outside the dependency, which is then resumed as after a
\* normal return.
Raised(status) ==
    IF status \in {200, 201, 204, 422} THEN ""
    ELSE IF status \in {404, 409} THEN "HTTPException"
    ELSE "Exception"

\* The handler is done: FastAPI resumes the generator with its outcome.
AfterHandler(g, status) ==
    IF g.fixture THEN g ELSE [g EXCEPT !.pc = "resume", !.exc = Raised(status)]

\* get_db: session = session_factory(); try: yield session
GetDbEnter == Generator(FALSE, "yield")

\* get_db: except Exception: session.rollback(); raise -- the raise leaves
\* the try statement through its finally clause.
SkipFinally == "end"
AfterExcept == "finally"

----------------------------------------------------------------------------
(* HTTP responses *)

\* detail={"message": f"{resource_name} not found", "id": item_id}, written
\* out in each of get_item, update_item and delete_item.
MessageOnlyDetail(name, item_id) ==
    [message |-> name \o " not found"]
\* detail=f"Record conflicts with an existing entry: {exc.orig}": the
\* formatted string, kept as its fixed text and the text of the driver error.
conflict_detail(orig) ==
    [message |-> "Record conflicts with an existing entry: ", orig |-> orig]
get_not_found_detail(name, item_id) ==
    [message |-> name \o " not found", id |-> item_id]
update_not_found_detail(name, item_id) ==
    [message |-> name \o " not found", id |-> item_id]
delete_not_found_detail(name, item_id) ==
    [message |-> name \o " not found", id |-> item_id]

\* A served request: the operation, its inputs, the clock when it arrived,
\* the status code and the response body.
Response(op, req, status, body) ==
    [op |-> op, req |-> req, at |-> now, status |-> status, body |-> body]

NoBody == <<>>

----------------------------------------------------------------------------
(* Declarative filters (api/generic/filters.py) *)

FilterField(column_name, filter_type, param_name) ==
    [column_name |-> column_name, filter_type |-> filter_type, param_name |-> param_name]

\* FilterField.effective_param_name
effective_param_name(field) ==
    IF IsNone(field.param_name) THEN field.column_name ELSE Val(field.param_name)

\* The filter declarations of the Bot resource.
BotFilterConfig ==
    << FilterField("rig_id", "exact", None),
       FilterField("kill_switch", "exact", None),
       FilterField("last_run_log", "ilike", Some("log_search")),
       FilterField("create_at", "date_range", None),
       FilterField("last_update_at", "date_range", None),
       FilterField("last_run_at", "date_range", None) >>

\* getattr(model, column_name) evaluated on a row: SQL value, NULL as None.
ColumnValue(row, column_name) ==
    IF column_name \in NullableColumns THEN row[column_name] ELSE Some(row[column_name])

\* filter_values.get(name)
FvGet(filter_values, name) ==
    IF name \in DOMAIN filter_values THEN filter_values[name] ELSE None

\* str.replace(old, new) for a one-character old.
RECURSIVE Replace(_, _, _)
Replace(s, old, new) ==
    IF Len(s) = 0 THEN <<>>
    ELSE (IF Head(s) = old THEN new ELSE <<Head(s)>>) \o Replace(Tail(s), old, new)

\* value.replace("\\", "\\\\").replace("%", "\\%").replace("_", "\\_")
NoEscape(value) == value
EscapeLike(value) ==
    Replace(Replace(Replace(value, "\\", <<"\\", "\\">>), "%", <<"\\", "%">>),
            "_", <<"\\", "_">>)

\* One WHERE clause.
Clause(op, column_name, value) == [op |-> op, column |-> column_name, value |-> value]

\* The clauses one declaration adds for the supplied values.
FieldClauses(field, filter_values) ==
    IF field.filter_type = "exact"
    THEN LET value == FvGet(filter_values, effective_param_name(field))
         IN IF IsNone(value) THEN <<>>
            ELSE << Clause("eq", field.column_name, Val(value)) >>
    ELSE IF field.filter_type = "ilike"
    THEN LET value == FvGet(filter_values, effective_param_name(field))
         IN IF IsNone(value) THEN <<>>
            ELSE << Clause("ilike", field.column_name,
                           <<"%">> \o EscapeLike(Val(value)) \o <<"%">>) >>
    ELSE IF field.filter_type = "date_range"
    THEN LET param == effective_param_name(field)
             after_value == FvGet(filter_values, param \o "_after")
             before_value == FvGet(filter_values, param \o "_before")
         IN (IF IsNone(after_value) THEN <<>>
             ELSE << Clause("ge", field.column_name, Val(after_value)) >>)
            \o
            (IF IsNone(before_value) THEN <<>>
             ELSE << Clause("le", field.column_name, Val(before_value)) >>)
    ELSE <<>>

\* apply_filters(query, model, filter_config, filter_values): the query is
\* the sequence of its WHERE clauses.
RECURSIVE ApplyFrom(_, _, _, _)
ApplyFrom(query, filter_config, filter_values, k) ==
    IF k > Len(filter_config) THEN query
    ELSE ApplyFrom(query \o FieldClauses(filter_config[k], filter_values),
                   filter_config, filter_values, k + 1)
apply_filters(query, filter_config, filter_values) ==
    ApplyFrom(query, filter_config, filter_values, 1)

\* make_filter_dependency: the (name, type, default) tuples one declaration
\* appends to `fields`; only the names matter for the construction.
DependencyFieldNames(field) ==
    IF field.filter_type = "date_range"
    THEN LET param == effective_param_name(field)
         IN << param \o "_after", param \o "_before" >>
    ELSE IF field.filter_type = "exact" THEN << effective_param_name(field) >>
    ELSE IF field.filter_type = "ilike" THEN << effective_param_name(field) >>
    ELSE <<>>

RECURSIVE DependencyFieldsFrom(_, _, _)
DependencyFieldsFrom(fields, filter_config, k) ==
    IF k > Len(filter_config) THEN fields
    ELSE DependencyFieldsFrom(fields \o DependencyFieldNames(filter_config[k]),
                              filter_config, k + 1)

\* dataclasses.make_dataclass(class_name, fields): raises TypeError when a
\* field name occurs twice, otherwise returns the class with these fields.
AllowDuplicates(class_name, fields) ==
    [error |-> "", class_name |-> class_name, fields |-> fields]
make_dataclass(class_name, fields) ==
    IF \E i, j \in 1..Len(fields) : i < j /\ fields[i] = fields[j]
    THEN [error |-> "TypeError", class_name |-> "", fields |-> <<>>]
    ELSE [error |-> "", class_name |-> class_name, fields |-> fields]

\* make_filter_dependency(filter_config, resource_name)
make_filter_dependency(filter_config, name) ==
    make_dataclass((IF name # "" THEN name \o "FilterParams" ELSE "FilterParams"),
                   DependencyFieldsFrom(<<>>, filter_config, 1))

\* lower() on the characters the model uses.
UpperSeq == <<"A", "B", "C", "D", "E", "F", "G", "H", "I", "J", "K", "L", "M",
              "N", "O", "P", "Q", "R", "S", "T", "U", "V", "W", "X", "Y", "Z">>
LowerSeq == <<"a", "b", "c", "d", "e", "f", "g", "h", "i", "j", "k", "l", "m",
              "n", "o", "p", "q", "r", "s", "t", "u", "v", "w", "x", "y", "z">>
LowerChar(c) ==
    IF c \in UpperLetters
    THEN LowerSeq[CHOOSE i \in 1..Len(UpperSeq) : UpperSeq[i] = c]
    ELSE c
LowerStr(s) == [i \in 1..Len(s) |-> LowerChar(s[i])]

\* SQL LIKE with ESCAPE '\': s from position i against pattern p from j.
RECURSIVE LikeFrom(_, _, _, _)
LikeFrom(s, p, i, j) ==
    IF j > Len(p) THEN i > Len(s)
    ELSE IF p[j] = "\\" /\ j < Len(p)
    THEN i <= Len(s) /\ s[i] = p[j + 1] /\ LikeFrom(s, p, i + 1, j + 2)
    ELSE IF p[j] = "%"
    THEN \E k \in i..(Len(s) + 1) : LikeFrom(s, p, k, j + 1)
    ELSE IF p[j] = "_"
    THEN i <= Len(s) /\ LikeFrom(s, p, i + 1, j + 1)
    ELSE i <= Len(s) /\ s[i] = p[j] /\ LikeFrom(s, p, i + 1, j + 1)

\* column.ilike(pattern, escape="\\"): lower(column) LIKE lower(pattern).
ILike(s, pattern) == LikeFrom(LowerStr(s), LowerStr(pattern), 1, 1)

\* A clause evaluated on a row; a comparison with NULL is not true.
StrictBounds(row, c) ==
    LET v == ColumnValue(row, c.column)
    IN /\ ~IsNone(v)
       /\ IF c.op = "eq" THEN Val(v) = c.value
          ELSE IF c.op = "ge" THEN Val(v) > c.value
          ELSE IF c.op = "le" THEN Val(v) < c.value
          ELSE ILike(Val(v), c.value)
ClauseHolds(row, c) ==
    LET v == ColumnValue(row, c.column)
    IN /\ ~IsNone(v)
       /\ IF c.op = "eq" THEN Val(v) = c.value
          ELSE IF c.op = "ge" THEN Val(v) >= c.value
          ELSE IF c.op = "le" THEN Val(v) <= c.value
          ELSE ILike(Val(v), c.value)

\* Rows of the table selected by a query (its clauses are AND-ed).
SelectAny(tbl, query) ==
    {r \in tbl : Len(query) = 0 \/ \E k \in 1..Len(query) : ClauseHolds(r, query[k])}
Select(tbl, query) ==
    {r \in tbl : \A k \in 1..Len(query) : ClauseHolds(r, query[k])}

----------------------------------------------------------------------------
(* Ordering and pagination (list_items) *)

\* Code points of the characters of ids, in increasing order.
CharOrder == <<"0", "1", "2", "3", "4", "5", "6", "7", "8", "9">> \o UpperSeq \o LowerSeq
Ord(c) == CHOOSE i \in 1..Len(CharOrder) : CharOrder[i] = c

RECURSIVE StrLessFrom(_, _, _)
StrLessFrom(a, b, i) ==
    IF i > Len(b) THEN FALSE
    ELSE IF i > Len(a) THEN TRUE
    ELSE IF a[i] = b[i] THEN StrLessFrom(a, b, i + 1)
    ELSE Ord(a[i]) < Ord(b[i])
StrLess(a, b) == StrLessFrom(a, b, 1)

ColLess(column_name, x, y) == IF column_name = "id" THEN StrLess(x, y) ELSE x < y

\* sort_columns default of create_read_router.
NoTieBreak == << <<"create_at", "desc">> >>
sort_columns == << <<"create_at", "desc">>, <<"id", "desc">> >>

\* Row a sorts strictly before row b under ORDER BY cols[k..].
RECURSIVE Before(_, _, _, _)
Before(a, b, cols, k) ==
    IF k > Len(cols) THEN FALSE
    ELSE LET col == cols[k][1]
             dir == cols[k][2]
         IN IF a[col] = b[col] THEN Before(a, b, cols, k + 1)
            ELSE IF dir = "desc" THEN ColLess(col, b[col], a[col])
            ELSE ColLess(col, a[col], b[col])

\* The arrangements of a set of rows in a sequence.
Arrangements(rows) ==
    {o \in [1..Cardinality(rows) -> rows] :
        \A i, j \in 1..Cardinality(rows) : o[i] = o[j] => i = j}

\* data_query.order_by(*order_clauses): the sequences in which the database
\* may return the rows.  Rows that no sort column tells apart come back in
\* an order the database does not promise.
OrderBy(rows, cols) ==
    {o \in Arrangements(rows) :
        \A i, j \in 1..Cardinality(rows) : i < j => ~Before(o[j], o[i], cols, 1)}

\* page: int = Query(default=1, ge=1); per_page: int = Query(default=20, ge=1, le=100)
MinPage == 1
MinPerPage == 1
MaxPerPage == 100
NoUpperLimit(page, per_page) ==
    page >= MinPage /\ per_page >= MinPerPage
ListParamsValid(page, per_page) ==
    page >= MinPage /\ per_page >= MinPerPage /\ per_page <= MaxPerPage

\* offset = (page - 1) * per_page
OffsetFromPage(page, per_page) == page * per_page
Offset(page, per_page) == (page - 1) * per_page

\* .offset(offset).limit(limit)
ClampToLastPage(rows, offset, limit) ==
    IF offset >= Len(rows) /\ Len(rows) > 0
    THEN SubSeq(rows, Len(rows) - Min(limit, Len(rows)) + 1, Len(rows))
    ELSE SubSeq(rows, offset + 1, Min(offset + limit, Len(rows)))
OffsetLimit(rows, offset, limit) ==
    SubSeq(rows, offset + 1, Min(offset + limit, Len(rows)))

\* math.ceil(total / per_page) if total > 0 else 0
FloorPages(total, per_page) == total \div per_page
Pages(total, per_page) ==
    IF total > 0
    THEN (IF total % per_page = 0 THEN total \div per_page ELSE (total \div per_page) + 1)
    ELSE 0

----------------------------------------------------------------------------
(* Requests served side by side *)

\* The service runs each request on a worker of its own with a session of
\* its own; two requests are enough for a race.
Slots == {1, 2}

\* One request being served: the operation and its inputs, the position of
\* its handler between two round trips to the database, the instance its
\* session is about to insert or has loaded (item), the result of its COUNT
\* query (total),
\* the response once it is decided, whether the row it is about was stored
\* when the request arrived (had: for a create, whether its instance collided
\* with a stored row), whether a delete of that id was committed
\* during its service (gone) and the requests that were being served during
\* its service (with).
Idle ==
    [ op |-> "none", pc |-> "idle", req |-> <<>>, item |-> None, total |-> 0,
      status |-> 0, body |-> NoBody, had |-> FALSE, gone |-> FALSE, with |-> {} ]
NoFlight == [s \in Slots |-> Idle]

\* The slots whose request has arrived and is not answered yet.
InFlight(fl) == {s \in Slots : fl[s].pc \notin {"idle", "done"}}

\* A request arrives in slot s, is validated and given its session (or is
\* answered 422): every request being served learns of it, and it of them.
Arrive(fl, s, op, req, pc, item, total, status, body, had) ==
    [x \in Slots |->
        IF x = s
        THEN [ op |-> op, pc |-> pc, req |-> req, item |-> item, total |-> total,
               status |-> status, body |-> body, had |-> had, gone |-> FALSE,
               with |-> InFlight(fl) \ {s} ]
        ELSE IF x \in InFlight(fl) THEN [fl[x] EXCEPT !.with = @ \cup {s}]
        ELSE fl[x]]

\* The session that belongs to no request (the one of bot_factory) commits:
\* every request that has arrived and whose response is not delivered yet
\* has had it beside it.
FactorySession == 0
Beside(fl, other) ==
    [x \in Slots |-> IF fl[x].pc # "idle" THEN [fl[x] EXCEPT !.with = @ \cup {other}]
                     ELSE fl[x]]

\* The handler of slot s moves on, or ends with a response.
Advance(fl, s, pc) == [fl EXCEPT ![s].pc = pc]
Finish(fl, s, status, body) ==
    [fl EXCEPT ![s].pc = "done", ![s].status = status, ![s].body = body]

\* The id a request is about: the one it generated or the one in its path.
AboutId(f) ==
    IF f.op = "create" THEN Some(f.req.generated)
    ELSE IF f.op \in {"update", "delete"} THEN Some(f.req.id)
    ELSE None

\* A delete of item_id has been committed: the requests being served that
\* are about this id have lost their row.
NoteDeleted(fl, item_id) ==
    [x \in Slots |->
        IF x \in InFlight(fl) /\ AboutId(fl[x]) = Some(item_id)
        THEN [fl[x] EXCEPT !.gone = TRUE]
        ELSE fl[x]]

\* The UPDATE of a flush, run under read committed.  The unit of work
\* compares the instance with the snapshot it loaded: the SET clause holds
\* the columns whose value differs from the loaded one (last_update_at
\* among them once before_update has run), the WHERE clause the loaded
\* primary key.  Without a net change no UPDATE is sent.
RowsMatched(tbl, item_id) == Cardinality({r \in tbl : r.id = item_id})
NetChange(loaded, item) == {f \in DOMAIN item : item[f] # loaded[f]}
FlushUpdate(tbl, loaded, item) ==
    {IF r.id = loaded.id
     THEN [f \in DOMAIN r |-> IF f \in NetChange(loaded, item) THEN item[f] ELSE r[f]]
     ELSE r : r \in tbl}

\* The DELETE of a flush: removes the row that has the id now, if any.
FlushDelete(tbl, item_id) == {r \in tbl : r.id # item_id}

----------------------------------------------------------------------------
(* Inputs of the requests *)

RigIds == {"rig-001", "rig-002"}
LogOk == <<"o", "k">>

\* A JSON object with exactly the given key.
Key(k, v) == [x \in {k} |-> v]
EmptyBody == [x \in {} |-> None]

\* Well-formed ids that generate_id can return, a well-formed id it never
\* returns in this model, and malformed ids.
IdNeverGenerated == [i \in 1..32 |-> "Z"]
IdTooShort == [i \in 1..31 |-> "a"]
IdTooLong == [i \in 1..33 |-> "a"]
IdBadChar == [i \in 1..32 |-> IF i = 4 THEN "-" ELSE "a"]
GeneratedIds == {generate_id(c) : c \in GenChoices}
PathIds == GeneratedIds \cup {IdNeverGenerated, IdTooShort, IdTooLong, IdBadChar}

MalformedIds == {IdTooShort, IdTooLong, IdBadChar}
WellFormedIds == GeneratedIds \cup {IdNeverGenerated}

CreateBodies ==
    { Key("rig_id", Some("rig-001")),
      Key("rig_id", Some("rig-002")) @@ Key("last_run_log", Some(LogOk)),
      Key("rig_id", Some("rig-001")) @@ Key("id", Some([i \in 1..32 |-> "a"]))
          @@ Key("create_at", Some(0)) @@ Key("last_update_at", Some(0)),
      EmptyBody,
      Key("rig_id", Some("rig-002")) @@ Key("kill_switch", None) }

\* The keyword arguments tests pass to bot_factory.
FactoryBots ==
    { [rig_id |-> "rig-001", kill_switch |-> FALSE, last_run_log |-> None,
       last_run_at |-> None],
      [rig_id |-> "rig-002", kill_switch |-> FALSE, last_run_log |-> Some(LogOk),
       last_run_at |-> None] }

GadgetNames == {"gadget-1", "gadget-2"}
GadgetBodies ==
    { Key("name", Some("gadget-1")),
      Key("name", Some("gadget-2")) @@ Key("description", Some(LogOk)),
      Key("name", Some("gadget-1")) @@ Key("id", Some([i \in 1..32 |-> "a"]))
          @@ Key("create_at", Some(0)) @@ Key("last_update_at", Some(0)),
      EmptyBody,
      Key("name", Some("gadget-2")) @@ Key("active", None) }

\* The draws of the list-heavy and name-conflict traffic: a third id.
GenChoicesList == GenChoices \cup { [i \in 1..IdLen |-> IF i = 32 THEN "c" ELSE "a"] }

UpdateBodies ==
    { EmptyBody,
      Key("rig_id", Some("rig-002")),
      Key("rig_id", Some("rig-002")) @@ Key("kill_switch", Some(FALSE))
          @@ Key("id", Some(IdNeverGenerated)) @@ Key("create_at", Some(1)),
      Key("last_run_log", Some(LogOk)),
      Key("last_run_log", None),
      Key("rig_id", None),
      Key("kill_switch", None) @@ Key("last_run_log", Some(LogOk)) }
UpdateRequests ==
    (WellFormedIds \X UpdateBodies)
    \cup (MalformedIds \X {Key("rig_id", Some("rig-002"))})

FilterParams == {"rig_id", "kill_switch", "log_search",
                 "create_at_after", "create_at_before",
                 "last_update_at_after", "last_update_at_before",
                 "last_run_at_after", "last_run_at_before"}
\* dataclasses.asdict(filters): every parameter, None when not supplied.
AsDict(supplied) ==
    [p \in FilterParams |-> IF p \in DOMAIN supplied THEN supplied[p] ELSE None]
NoFilters == AsDict(EmptyBody)

----------------------------------------------------------------------------
(* The state machine *)

Init ==
    /\ table = {}
    /\ session = CleanSession
    /\ flight = NoFlight
    /\ now = 0
    /\ resp = Response("none", NoBody, 0, NoBody)
    /\ pre = {}
    /\ deleted = {}
    /\ gen = override_get_db

\* Time passes between requests.
Tick ==
    /\ now < MaxTime
    /\ now' = now + 1
    /\ UNCHANGED <<table, session, resp, pre, deleted, gen, flight>>

\* bot_factory: the UPDATE that overrides the timestamps of the flushed row
\* (None: keep what the default factories read).
TimestampOverrides(bot, create_at, last_update_at) ==
    [bot EXCEPT !.create_at = IF IsNone(create_at) THEN @ ELSE Val(create_at),
                !.last_update_at = IF IsNone(last_update_at) THEN @ ELSE Val(last_update_at)]

\* tests/conftest.py bot_factory: a Bot stored through the session of the
\* test, outside any request.  create_at and last_update_at are the optional
\* overrides (None: keep what the default factories read); t_update is the
\* later of the two utcnow() reads of the constructor.  An id already
\* stored makes flush() raise IntegrityError out of the fixture, which ends
\* the test: the step is not taken.
BotFactory(rig_id, kill_switch, last_run_log, last_run_at, create_at, last_update_at, choice, t_update) ==
    LET kwargs == [ rig_id |-> rig_id, kill_switch |-> kill_switch,
                    last_run_log |-> last_run_log, last_run_at |-> last_run_at ]
        made == NewBot(kwargs, generate_id(choice), now, t_update)
        bot == Val(made.item)
        flushed == SessionCommitNew("bots", table, SessionAdd(session, bot))
        row == TimestampOverrides(bot, create_at, last_update_at)
    IN /\ gen.pc \in {"start", "yield", "end"}
       /\ made.error = ""
       /\ flushed.error = ""
       /\ table' = table \cup {row}
       /\ now' = t_update
       /\ pre' = table
       /\ resp' = Response("factory", [kwargs |-> kwargs, generated |-> generate_id(choice)],
                           0, BotResponse(row))
       /\ UNCHANGED <<session, deleted, gen, flight>>

\* POST {prefix}: create_item.  t_update is the later of the two utcnow()
\* reads made by the default factories.
CreateItem(model, body, choice, t_update) ==
    LET req == [body |-> body, generated |-> generate_id(choice)]
    IN /\ gen.pc = "yield"
       /\ pre' = table
       /\ UNCHANGED deleted
       /\ IF ~CreateSchemaValid(model, body)
          THEN /\ resp' = Response("create", req, 422, NoBody)
               /\ UNCHANGED <<table, session, now>>
          ELSE LET made == ModelInit(model, CreateSchemaDump(model, body),
                                     generate_id(choice), now, t_update)
               IN IF made.error # ""
                  THEN \* TypeError from model(**payload.model_dump()), before db.add
                       /\ resp' = Response("create", req, 500, NoBody)
                       /\ UNCHANGED <<table, session, now>>
                  ELSE LET item == Val(made.item)
                           c == SessionCommitNew(model, table, SessionAdd(session, item))
                       IN /\ now' = t_update
                          /\ IF c.error = "IntegrityError"
                             THEN /\ session' = SessionRollback(c.session)
                                  /\ table' = c.table
                                  /\ resp' = Response("create", req, 409,
                                               [detail |-> conflict_detail(c.orig)])
                             ELSE IF c.error # ""
                             THEN /\ session' = c.session
                                  /\ table' = c.table
                                  /\ resp' = Response("create", req, 500, NoBody)
                             ELSE /\ session' = c.session
                                  /\ table' = c.table
                                  /\ resp' = Response("create", req, 201,
                                                      ResponseSchema(model, item))
       /\ gen' = AfterHandler(gen, resp'.status)
       /\ UNCHANGED flight

\* GET {prefix}/{item_id}: get_item.
GetItem(model, item_id) ==
    LET req == [id |-> item_id]
    IN /\ gen.pc = "yield"
       /\ UNCHANGED <<table, session, now, deleted>>
       /\ pre' = table
       /\ IF ~read_id_pattern(item_id)
          THEN resp' = Response("get", req, 422, NoBody)
          ELSE IF session.inactive
          THEN resp' = Response("get", req, 500, NoBody)
          ELSE LET item == DbGet(table, item_id)
               IN IF IsNone(item)
                  THEN resp' = Response("get", req, 404,
                                        [detail |-> get_not_found_detail(ResourceName(model),
                                                                         item_id)])
                  ELSE resp' = Response("get", req, 200, ResponseSchema(model, Val(item)))
       /\ gen' = AfterHandler(gen, resp'.status)
       /\ UNCHANGED flight

\* PUT {prefix}/{item_id}: update_item.
UpdateItem(item_id, body) ==
    LET req == [id |-> item_id, body |-> body]
    IN /\ gen.pc = "yield"
       /\ pre' = table
       /\ UNCHANGED <<session, now, deleted>>
       /\ IF ~update_id_pattern(item_id) \/ ~BotUpdateValid(body)
          THEN /\ resp' = Response("update", req, 422, NoBody)
               /\ UNCHANGED table
          ELSE IF session.inactive
          THEN /\ resp' = Response("update", req, 500, NoBody)
               /\ UNCHANGED table
          ELSE LET found == DbGet(table, item_id)
               IN IF IsNone(found)
                  THEN /\ resp' = Response("update", req, 404,
                                           [detail |-> update_not_found_detail(resource_name,
                                                                              item_id)])
                       /\ UNCHANGED table
                  ELSE LET update_data == BotUpdateDump(body)
                       IN IF NotNullViolation(update_data)
                          THEN \* IntegrityError from db.commit() is not caught here
                               /\ resp' = Response("update", req, 500, NoBody)
                               /\ UNCHANGED table
                          ELSE LET item == SetAttrs(Val(found), update_data)
                                   tbl == CommitUpdate(table, Val(found), item,
                                                       update_data, now)
                                   refreshed == Val(DbGet(tbl, item_id))
                               IN /\ table' = tbl
                                  /\ resp' = Response("update", req, 200,
                                                      BotResponse(refreshed))
       /\ gen' = AfterHandler(gen, resp'.status)
       /\ UNCHANGED flight

\* DELETE {prefix}/{item_id}: delete_item.
DeleteItem(model, item_id) ==
    LET req == [id |-> item_id]
    IN /\ gen.pc = "yield"
       /\ pre' = table
       /\ UNCHANGED <<session, now>>
       /\ IF ~delete_id_pattern(item_id)
          THEN /\ resp' = Response("delete", req, 422, NoBody)
               /\ UNCHANGED <<table, deleted>>
          ELSE IF session.inactive
          THEN /\ resp' = Response("delete", req, 500, NoBody)
               /\ UNCHANGED <<table, deleted>>
          ELSE LET found == DbGet(table, item_id)
               IN IF IsNone(found)
                  THEN /\ resp' = Response("delete", req, 404,
                                           [detail |-> delete_not_found_detail(ResourceName(model),
                                                                              item_id)])
                       /\ UNCHANGED <<table, deleted>>
                  ELSE /\ table' = CommitDelete(table, Val(found))
                       /\ deleted' = deleted \cup {item_id}
                       /\ resp' = Response("delete", req, 204, NoBody)
       /\ gen' = AfterHandler(gen, resp'.status)
       /\ UNCHANGED flight

\* GET {prefix}: list_items.
ListItems(page, per_page, filter_values) ==
    LET req == [page |-> page, per_page |-> per_page, filters |-> filter_values]
    IN /\ gen.pc = "yield"
       /\ UNCHANGED <<table, session, now, deleted>>
       /\ pre' = table
       /\ IF ~ListParamsValid(page, per_page)
          THEN resp' = Response("list", req, 422, NoBody)
          ELSE IF session.inactive
          THEN resp' = Response("list", req, 500, NoBody)
          ELSE LET count_query == apply_filters(<<>>, BotFilterConfig, filter_values)
                   total == Cardinality(Select(table, count_query))
                   data_query == apply_filters(<<>>, BotFilterConfig, filter_values)
                   offset == Offset(page, per_page)
                   pages == Pages(total, per_page)
               IN \E ordered \in OrderBy(Select(table, data_query), sort_columns) :
                     LET items == OffsetLimit(ordered, offset, per_page)
                     IN resp' = Response("list", req, 200,
                                  [ items    |-> [i \in 1..Len(items) |-> BotResponse(items[i])],
                                    total    |-> total,
                                    page     |-> page,
                                    per_page |-> per_page,
                                    pages    |-> pages ])
       /\ gen' = AfterHandler(gen, resp'.status)
       /\ UNCHANGED flight

\* The Bot resource wired to the five factories, its table filled by
\* bot_factory.
Next ==
    \/ Tick
    \/ \E f \in FactoryBots, choice \in GenChoices, t \in now..Min(now + 1, MaxTime) :
           BotFactory(f.rig_id, f.kill_switch, f.last_run_log, f.last_run_at,
                      None, None, choice, t)
    \/ \E body \in CreateBodies, choice \in GenChoices : CreateItem("bots", body, choice, now)
    \/ \E item_id \in PathIds : GetItem("bots", item_id)
    \/ \E r \in UpdateRequests : UpdateItem(r[1], r[2])
    \/ \E item_id \in PathIds : DeleteItem("bots", item_id)
    \/ ListItems(1, 100, NoFilters)

Spec == Init /\ [][Next]_vars

\* The gadget_app of tests/test_generic_delete_router.py: the read, create
\* and delete routers of the Gadget resource.
NextGadget ==
    \/ Tick
    \/ \E body \in GadgetBodies, choice \in GenChoices, t \in now..Min(now + 1, MaxTime) :
           CreateItem("gadgets_delete", body, choice, t)
    \/ \E item_id \in PathIds : GetItem("gadgets_delete", item_id)
    \/ \E item_id \in PathIds : DeleteItem("gadgets_delete", item_id)

SpecGadget == Init /\ [][NextGadget]_vars

\* The gadget_app of tests/test_generic_create_router.py: the read and
\* create routers of the Gadget resource whose name is unique.
NextUnique ==
    \/ Tick
    \/ \E body \in GadgetBodies, choice \in GenChoicesList, t \in now..Min(now + 1, MaxTime) :
           CreateItem("gadgets_create", body, choice, t)
    \/ \E item_id \in PathIds : GetItem("gadgets_create", item_id)

SpecUnique == Init /\ [][NextUnique]_vars

\* The same service driven by list-heavy traffic: three ids can be drawn,
\* and list requests vary page, per_page and the filters.
ListPaging == ({1, 2, 4} \X {1, 2}) \cup {<<1, 100>>, <<0, 1>>, <<1, 0>>, <<1, 101>>}
ListFilters ==
    { NoFilters,
      AsDict(Key("rig_id", Some("rig-001"))) }

NextList ==
    \/ Tick
    \/ \E r \in RigIds, choice \in GenChoicesList, t \in now..Min(now + 1, MaxTime) :
           BotFactory(r, FALSE, None, None, None, None, choice, t)
    \/ \E pg \in ListPaging, fv \in ListFilters : ListItems(pg[1], pg[2], fv)

SpecList == Init /\ [][NextList]_vars

\* The service with the session dependency of the application: every
\* request enters get_db, runs one handler with the session it yields, and
\* get_db is resumed with the handler's outcome.
SessionCreateBodies == { Key("rig_id", Some("rig-001")), EmptyBody }
SessionPathIds == {generate_id([i \in 1..IdLen |-> "a"]), IdBadChar}

InitSession ==
    /\ table = {}
    /\ session = CleanSession
    /\ flight = NoFlight
    /\ now = 0
    /\ resp = Response("none", NoBody, 0, NoBody)
    /\ pre = {}
    /\ deleted = {}
    /\ gen = Generator(FALSE, "start")

\* A request arrives: get_db runs up to its yield.
EnterGetDb ==
    /\ gen.pc \in {"start", "end"}
    /\ gen' = GetDbEnter
    /\ session' = CleanSession
    /\ UNCHANGED <<table, now, resp, pre, deleted, flight>>

\* The storage fails under the handler: its first statement raises an
\* exception that no handler catches.
StorageFailure ==
    /\ gen.pc = "yield"
    /\ resp' = Response("failure", NoBody, 500, NoBody)
    /\ gen' = AfterHandler(gen, 500)
    /\ pre' = table
    /\ UNCHANGED <<table, session, now, deleted, flight>>

\* PUT {prefix}/{item_id}: update_item when the storage rejects the commit
\* (a constraint of the table violated by the new values, a lost
\* connection): db.commit() raises, update_item catches nothing.
UpdateItemCommitFails(item_id, body) ==
    LET req == [id |-> item_id, body |-> body]
        found == DbGet(table, item_id)
    IN /\ gen.pc = "yield"
       /\ update_id_pattern(item_id) /\ BotUpdateValid(body)
       /\ ~session.inactive
       /\ ~IsNone(found)
       /\ IsDirty(BotUpdateDump(body))
       /\ pre' = table
       /\ table' = FailedCommit(table, Val(found), SetAttrs(Val(found), BotUpdateDump(body)))
       /\ session' = FailedSession(session)
       /\ resp' = Response("update", req, 500, NoBody)
       /\ UNCHANGED <<now, deleted>>
       /\ gen' = AfterHandler(gen, resp'.status)
       /\ UNCHANGED flight

\* get_db resumed by an exception: except Exception: rollback, raise.
GetDbExcept ==
    /\ gen.pc = "resume" /\ gen.exc # ""
    /\ session' = SessionRollback(session)
    /\ gen' = [gen EXCEPT !.pc = AfterExcept, !.rolled_back = TRUE]
    /\ UNCHANGED <<table, now, resp, pre, deleted, flight>>

\* get_db leaving the try statement: finally: session.close().
GetDbFinally ==
    /\ \/ gen.pc = "finally"
       \/ gen.pc = "resume" /\ gen.exc = ""
    /\ session' = CleanSession
    /\ gen' = [gen EXCEPT !.pc = "end", !.closed = TRUE]
    /\ UNCHANGED <<table, now, resp, pre, deleted, flight>>

NextSession ==
    \/ Tick
    \/ EnterGetDb
    \/ \E choice \in GenChoices :
           BotFactory("rig-001", FALSE, None, None, None, None, choice, now)
    \/ \E body \in SessionCreateBodies, choice \in GenChoices :
           CreateItem("bots", body, choice, now)
    \/ \E item_id \in SessionPathIds : GetItem("bots", item_id)
    \/ \E item_id \in SessionPathIds : UpdateItem(item_id, Key("rig_id", Some("rig-002")))
    \/ \E item_id \in SessionPathIds : DeleteItem("bots", item_id)
    \/ ListItems(1, 100, NoFilters)
    \/ StorageFailure
    \/ \E item_id \in SessionPathIds :
           UpdateItemCommitFails(item_id, Key("rig_id", Some("rig-002")))
    \/ GetDbExcept
    \/ GetDbFinally

\* FastAPI always resumes a generator it has entered once the handler is
\* done, and a resumed generator runs to its end.
SpecSession ==
    InitSession /\ [][NextSession]_vars /\ WF_gen(GetDbExcept) /\ WF_gen(GetDbFinally)

\* The pagination arithmetic of list_items on its own: Init draws a row
\* count and a per_page, ComputePages applies the arithmetic.
InitPages ==
    /\ table = {}
    /\ session = CleanSession
    /\ flight = NoFlight
    /\ now = 0
    /\ pre = {}
    /\ deleted = {}
    /\ gen = override_get_db
    /\ resp \in { Response("pages", [total |-> t, per_page |-> p], 0, NoBody) :
                    t \in 0..MaxTotal, p \in MinPerPage..MaxPerPage }

ComputePages ==
    /\ resp.op = "pages"
    /\ resp.status = 0
    /\ resp' = [resp EXCEPT !.status = 200,
                            !.body = [pages |-> Pages(resp.req.total, resp.req.per_page)]]
    /\ UNCHANGED <<table, session, now, pre, deleted, gen, flight>>

NextPages == ComputePages

SpecPages == InitPages /\ [][NextPages]_vars

\* apply_filters on its own: Init draws the rows of the table, ApplyFilters
\* builds the restricted query for one dict of filter values and runs it.
FilterRow(c, rig, kill, log, t_create, t_update, t_run) ==
    [ id             |-> [i \in 1..IdLen |-> c],
      create_at      |-> t_create,
      last_update_at |-> t_update,
      rig_id         |-> rig,
      last_run_at    |-> t_run,
      kill_switch    |-> kill,
      last_run_log   |-> log ]
FilterRows ==
    { FilterRow("a", "rig-001", FALSE, Some(<<"1", "0", "0", "%">>), 0, 0, None),
      FilterRow("b", "rig-001", TRUE,  Some(<<"a", "_", "b">>),      1, 1, Some(0)),
      FilterRow("c", "rig-002", FALSE, Some(<<"a", "x", "b">>),      0, 1, Some(1)),
      FilterRow("d", "rig-002", TRUE,  Some(<<"c", "\\", "d">>),     1, 1, None),
      FilterRow("e", "rig-001", FALSE, Some(<<"J", "o", "b", " ", "O", "k">>), 0, 0, Some(1)),
      FilterRow("f", "rig-002", FALSE, None,                         0, 0, Some(0)) }

FilterValues ==
    { EmptyBody,
      NoFilters,
      Key("rig_id", Some("rig-001")),
      Key("kill_switch", Some(TRUE)) @@ Key("rig_id", None),
      Key("rig_id", Some("rig-001")) @@ Key("kill_switch", Some(TRUE)),
      Key("rig_id", Some("rig-002")) @@ Key("create_at_after", Some(1)),
      Key("rig_id", Some("rig-002")) @@ Key("log_search", Some(<<"b">>)),
      Key("log_search", Some(<<"%">>)),
      Key("log_search", Some(<<"_">>)),
      Key("log_search", Some(<<"\\">>)),
      Key("log_search", Some(<<"a", "_", "b">>)),
      Key("log_search", Some(<<"0", "%">>)),
      Key("log_search", Some(<<"O", "K">>)),
      Key("log_search", Some(<<"A", "X">>)),
      Key("log_search", Some(<<>>)),
      Key("create_at_after", Some(1)),
      Key("create_at_before", Some(0)),
      Key("create_at_after", Some(0)) @@ Key("create_at_before", Some(0)),
      Key("create_at_after", Some(1)) @@ Key("create_at_before", Some(0)),
      Key("last_update_at_after", Some(1)) @@ Key("last_update_at_before", Some(1)),
      Key("last_run_at_after", Some(1)),
      Key("last_run_at_before", Some(0)) @@ Key("last_run_at_after", None) }

InitFilters ==
    /\ table \in SUBSET FilterRows
    /\ session = CleanSession
    /\ flight = NoFlight
    /\ now = MaxTime
    /\ resp = Response("none", NoBody, 0, NoBody)
    /\ pre = {}
    /\ deleted = {}
    /\ gen = override_get_db

ApplyFilters(filter_values) ==
    /\ resp' = Response("filter", [filters |-> filter_values], 200,
                        [rows |-> Select(table, apply_filters(<<>>, BotFilterConfig,
                                                              filter_values))])
    /\ pre' = table
    /\ UNCHANGED <<table, session, now, deleted, gen, flight>>

NextFilters == \E filter_values \in FilterValues : ApplyFilters(filter_values)

SpecFilters == InitFilters /\ [][NextFilters]_vars

\* create_read_router at resource-wiring time: Init draws the filter
\* declarations handed to the factory, WireReadRouter builds the filter
\* dependency from them (the factory's first use of the declarations).
WiringFields ==
    { FilterField("rig_id", "exact", None),
      FilterField("last_run_log", "ilike", Some("log_search")),
      FilterField("create_at", "date_range", None),
      FilterField("create_at_after", "exact", None),
      FilterField("owner", "exact", Some("rig_id")),
      FilterField("last_update_at", "date_range", Some("create_at")) }
RECURSIVE WiringConfigs(_)
WiringConfigs(n) ==
    IF n = 0 THEN { <<>> }
    ELSE WiringConfigs(n - 1)
         \cup { Append(c, f) : c \in {x \in WiringConfigs(n - 1) : Len(x) = n - 1},
                               f \in WiringFields }

InitWiring ==
    /\ table = {}
    /\ session = CleanSession
    /\ flight = NoFlight
    /\ now = 0
    /\ pre = {}
    /\ deleted = {}
    /\ gen = override_get_db
    /\ resp \in { Response("wiring", [filter_config |-> c], 0, NoBody) :
                    c \in WiringConfigs(MaxFields) }

WireReadRouter ==
    /\ resp.op = "wiring"
    /\ resp' = [resp EXCEPT !.op = "wired",
                            !.body = make_filter_dependency(resp.req.filter_config,
                                                            resource_name)]
    /\ UNCHANGED <<table, session, now, pre, deleted, gen, flight>>

NextWiring == WireReadRouter

SpecWiring == InitWiring /\ [][NextWiring]_vars

\* A client reading a listing to its end: Init draws the table, the filters
\* and per_page; WalkPage sends the list request for the next page of the
\* listing and the client appends the items of the response to the ones it
\* has.  resp holds the walk: the pages fetched so far and the last total
\* and pages the service reported.
WalkTables == {t \in SUBSET FilterRows : Cardinality(t) <= MaxRows}
WalkPerPage == {1, 2, 3, 100}
WalkFilters ==
    { NoFilters,
      AsDict(Key("rig_id", Some("rig-001"))),
      AsDict(Key("kill_switch", Some(FALSE)) @@ Key("create_at_before", Some(0))),
      AsDict(Key("last_run_at_after", Some(1))) }

InitWalk ==
    /\ table \in WalkTables
    /\ session = CleanSession
    /\ flight = NoFlight
    /\ now = MaxTime
    /\ pre = {}
    /\ deleted = {}
    /\ gen = override_get_db
    /\ resp \in { Response("walk", [per_page |-> p, filters |-> fv], 0,
                           [items |-> <<>>, total |-> 0, pages |-> 0, page |-> 0]) :
                    p \in WalkPerPage, fv \in WalkFilters }

\* GET {prefix}?page=<next>&per_page=..: list_items, called for the page
\* after the last one fetched while the service reports more pages.
WalkPage ==
    /\ resp.op = "walk"
    /\ resp.body.page = 0 \/ resp.body.page < resp.body.pages
    /\ LET page == resp.body.page + 1
           per_page == resp.req.per_page
           filter_values == resp.req.filters
           count_query == apply_filters(<<>>, BotFilterConfig, filter_values)
           total == Cardinality(Select(table, count_query))
           data_query == apply_filters(<<>>, BotFilterConfig, filter_values)
           offset == Offset(page, per_page)
           pages == Pages(total, per_page)
       IN \E ordered \in OrderBy(Select(table, data_query), sort_columns) :
             LET items == OffsetLimit(ordered, offset, per_page)
             IN resp' = [resp EXCEPT
                           !.status = 200,
                           !.body = [ items |-> resp.body.items
                                          \o [i \in 1..Len(items) |-> BotResponse(items[i])],
                                      total |-> total,
                                      pages |-> pages,
                                      page  |-> page ]]
    /\ pre' = table
    /\ UNCHANGED <<table, session, now, deleted, gen, flight>>

NextWalk == WalkPage

SpecWalk == InitWalk /\ [][NextWalk]_vars

\* The service with its requests served side by side.  Each handler is cut
\* at its round trips to the database; the database runs every statement on
\* the rows committed so far (read committed) and the flush of a handler's
\* db.commit() with its COMMIT in one step.  table, now and flight are the
\* state of the requests; session and resp are the session of the test and
\* the position of its bot_factory call; gen, pre and deleted belong to the
\* one-request-at-a-time rig and keep their initial values.
ConcChoices == GenChoices
ConcIds == {generate_id([i \in 1..IdLen |-> "a"])}
ConcUpdateBodies == { Key("rig_id", Some("rig-002")) }
ConcPaging == {<<1, 1>>, <<2, 1>>}
\* create_at= and last_update_at= handed to bot_factory.
ConcOverrides == {<<None, None>>, <<Some(0), Some(0)>>}
RaceModels == {"bots", "gadgets_create"}
RaceBodies(model) ==
    IF model = "bots"
    THEN { Key("rig_id", Some("rig-001")) }
    ELSE { Key("name", Some(n)) : n \in GadgetNames }

\* create_item, up to db.commit(): item = model(**payload.model_dump());
\* db.add(item).  t_update is the later of the two utcnow() reads made by
\* the default factories.
CreateItemAdd(s, model, body, choice, t_update) ==
    LET req == [model |-> model, body |-> body, generated |-> generate_id(choice)]
    IN /\ flight[s].pc = "idle"
       /\ IF ~CreateSchemaValid(model, body)
          THEN /\ flight' = Arrive(flight, s, "create", req, "done", None, 0, 422, NoBody, FALSE)
               /\ UNCHANGED now
          ELSE LET made == ModelInit(model, CreateSchemaDump(model, body),
                                     generate_id(choice), now, t_update)
               IN IF made.error # ""
                  THEN \* TypeError from model(**payload.model_dump())
                       /\ flight' = Arrive(flight, s, "create", req, "done", None, 0, 500,
                                           NoBody, FALSE)
                       /\ UNCHANGED now
                  ELSE /\ flight' = Arrive(flight, s, "create", req, "commit", made.item,
                                           0, 0, NoBody,
                                           InsertConflicts(model, table, <<Val(made.item)>>))
                       /\ now' = t_update
       /\ UNCHANGED <<table, session, resp, pre, deleted, gen>>

\* create_item: db.commit(), and on IntegrityError db.rollback() and 409.
CreateItemCommit(s) ==
    /\ flight[s].op = "create" /\ flight[s].pc = "commit"
    /\ LET c == SessionCommitNew(flight[s].req.model, table,
                                 SessionAdd(CleanSession, Val(flight[s].item)))
       IN IF c.error = "IntegrityError"
          THEN /\ flight' = Finish(flight, s, 409, [detail |-> conflict_detail(c.orig)])
               /\ UNCHANGED table
          ELSE /\ flight' = Advance(flight, s, "refresh")
               /\ table' = c.table
    /\ UNCHANGED <<session, now, resp, pre, deleted, gen>>

\* create_item: db.refresh(item) and the response; refresh raises when the
\* row is gone.
CreateItemRefresh(s) ==
    /\ flight[s].op = "create" /\ flight[s].pc = "refresh"
    /\ LET row == DbGet(table, Val(flight[s].item).id)
       IN IF IsNone(row)
          THEN flight' = Finish(flight, s, 500, NoBody)
          ELSE flight' = Finish(flight, s, 201,
                                ResponseSchema(flight[s].req.model, Val(row)))
    /\ UNCHANGED <<table, session, now, resp, pre, deleted, gen>>

\* tests/conftest.py bot_factory run on the session of the test (session)
\* while requests are being served on their own sessions; resp.op is the
\* position of the call: "none" before the first call, "flushed",
\* "committed", then "returned" or "raised"; resp.at is the clock when the
\* call was made.
\* Up to db_session.flush(): the Bot is built (t_update is the later of the
\* two utcnow() reads of the constructor), added, and its INSERT sent in the
\* transaction of the session, where no other session sees it.  An id
\* already stored makes flush() raise IntegrityError out of the fixture: the
\* step is not taken.
FactoryFlush(rig_id, kill_switch, last_run_log, last_run_at, create_at, last_update_at, choice, t_update) ==
    LET kwargs == [ rig_id |-> rig_id, kill_switch |-> kill_switch,
                    last_run_log |-> last_run_log, last_run_at |-> last_run_at ]
        made == NewBot(kwargs, generate_id(choice), now, t_update)
    IN /\ resp.op \in {"none", "returned", "raised"}
       /\ made.error = ""
       /\ ~InsertConflicts("bots", table, <<Val(made.item)>>)
       /\ session' = SessionAdd(session, Val(made.item))
       /\ now' = t_update
       /\ resp' = Response("flushed", [ generated |-> generate_id(choice),
                                        create_at |-> create_at,
                                        last_update_at |-> last_update_at ], 0, NoBody)
       /\ UNCHANGED <<table, pre, deleted, gen, flight>>

\* bot_factory: the UPDATE of the timestamp overrides, if any, and
\* db_session.commit(): the row becomes visible to the other sessions as
\* it stands in the transaction.  No other session inserts a Bot.
FactoryCommit ==
    /\ resp.op = "flushed"
    /\ LET c == SessionCommitNew("bots", table,
                    [session EXCEPT !.new = [i \in 1..Len(@) |->
                        TimestampOverrides(@[i], resp.req.create_at, resp.req.last_update_at)]])
       IN /\ c.error = ""
          /\ table' = c.table
          /\ session' = c.session
    /\ flight' = Beside(flight, FactorySession)
    /\ resp' = [resp EXCEPT !.op = "committed", !.req = [generated |-> @.generated]]
    /\ UNCHANGED <<now, pre, deleted, gen>>

\* bot_factory: db_session.refresh(bot) and return bot; refresh raises
\* InvalidRequestError when the row has been deleted meanwhile.
FactoryRefresh ==
    /\ resp.op = "committed"
    /\ LET row == DbGet(table, resp.req.generated)
       IN IF IsNone(row)
          THEN resp' = [resp EXCEPT !.op = "raised", !.req = NoBody]
          ELSE resp' = [resp EXCEPT !.op = "returned", !.req = NoBody]
    /\ UNCHANGED <<table, session, now, pre, deleted, gen, flight>>

\* PUT {prefix}/{item_id} arrives: the path and the body are validated and
\* get_db makes the session of the request.
UpdateItemArrive(s, item_id, body) ==
    LET req == [id |-> item_id, body |-> body]
        had == ~IsNone(DbGet(table, item_id))
    IN /\ flight[s].pc = "idle"
       /\ IF ~update_id_pattern(item_id) \/ ~BotUpdateValid(body)
          THEN flight' = Arrive(flight, s, "update", req, "done", None, 0, 422, NoBody, had)
          ELSE flight' = Arrive(flight, s, "update", req, "get", None, 0, 0, NoBody, had)
       /\ UNCHANGED <<table, session, now, resp, pre, deleted, gen>>

\* update_item, up to db.commit(): db.get loads the row into the session
\* (404 when there is none), then the setattr loop.
UpdateItemGet(s) ==
    /\ flight[s].op = "update" /\ flight[s].pc = "get"
    /\ LET found == DbGet(table, flight[s].req.id)
       IN IF IsNone(found)
          THEN flight' = Finish(flight, s, 404,
                                [detail |-> update_not_found_detail(resource_name,
                                                                    flight[s].req.id)])
          ELSE flight' = [Advance(flight, s, "commit") EXCEPT ![s].item = found]
    /\ UNCHANGED <<table, session, now, resp, pre, deleted, gen>>

\* update_item: db.commit().  An instance that had an attribute set is
\* dirty: before_update runs and the net change against the loaded snapshot
\* is sent as one UPDATE; the flush raises IntegrityError when NULL goes to
\* a NOT NULL column and StaleDataError when the UPDATE matches no row.
UpdateItemCommit(s) ==
    /\ flight[s].op = "update" /\ flight[s].pc = "commit"
    /\ LET update_data == BotUpdateDump(flight[s].req.body)
           loaded == Val(flight[s].item)
           item == touch_last_update_at(SetAttrs(loaded, update_data), now)
       IN IF ~IsDirty(update_data) \/ NetChange(loaded, item) = {}
          THEN /\ flight' = Advance(flight, s, "refresh")
               /\ UNCHANGED table
          ELSE IF NotNullViolation(update_data) \/ RowsMatched(table, loaded.id) = 0
          THEN /\ flight' = Finish(flight, s, 500, NoBody)
               /\ UNCHANGED table
          ELSE /\ flight' = Advance(flight, s, "refresh")
               /\ table' = FlushUpdate(table, loaded, item)
    /\ UNCHANGED <<session, now, resp, pre, deleted, gen>>

\* update_item: db.refresh(item) and the response.
UpdateItemRefresh(s) ==
    /\ flight[s].op = "update" /\ flight[s].pc = "refresh"
    /\ LET row == DbGet(table, flight[s].req.id)
       IN IF IsNone(row)
          THEN flight' = Finish(flight, s, 500, NoBody)
          ELSE flight' = Finish(flight, s, 200, BotResponse(Val(row)))
    /\ UNCHANGED <<table, session, now, resp, pre, deleted, gen>>

\* DELETE {prefix}/{item_id} arrives: the path is validated and get_db makes
\* the session of the request.
DeleteItemArrive(s, item_id) ==
    LET req == [id |-> item_id]
        had == ~IsNone(DbGet(table, item_id))
    IN /\ flight[s].pc = "idle"
       /\ IF ~delete_id_pattern(item_id)
          THEN flight' = Arrive(flight, s, "delete", req, "done", None, 0, 422, NoBody, had)
          ELSE flight' = Arrive(flight, s, "delete", req, "get", None, 0, 0, NoBody, had)
       /\ UNCHANGED <<table, session, now, resp, pre, deleted, gen>>

\* delete_item, up to db.commit(): db.get, 404 when there is no row,
\* db.delete(item).
DeleteItemGet(s) ==
    /\ flight[s].op = "delete" /\ flight[s].pc = "get"
    /\ IF IsNone(DbGet(table, flight[s].req.id))
       THEN flight' = Finish(flight, s, 404,
                             [detail |-> delete_not_found_detail(resource_name,
                                                                 flight[s].req.id)])
       ELSE flight' = Advance(flight, s, "commit")
    /\ UNCHANGED <<table, session, now, resp, pre, deleted, gen>>

\* delete_item: db.commit().  A DELETE that matches no row is only warned
\* about.
DeleteItemCommit(s) ==
    /\ flight[s].op = "delete" /\ flight[s].pc = "commit"
    /\ table' = FlushDelete(table, flight[s].req.id)
    /\ flight' = Finish((IF RowsMatched(table, flight[s].req.id) > 0
                          THEN NoteDeleted(flight, flight[s].req.id) ELSE flight),
                         s, 204, NoBody)
    /\ UNCHANGED <<session, now, resp, pre, deleted, gen>>

\* list_items, up to the count: total = db.execute(count_query).scalar() or 0
ListItemsCount(s, page, per_page, filter_values) ==
    LET req == [page |-> page, per_page |-> per_page, filters |-> filter_values]
        count_query == apply_filters(<<>>, BotFilterConfig, filter_values)
        total == Cardinality(Select(table, count_query))
    IN /\ flight[s].pc = "idle"
       /\ IF ~ListParamsValid(page, per_page)
          THEN flight' = Arrive(flight, s, "list", req, "done", None, 0, 422, NoBody, FALSE)
          ELSE flight' = Arrive(flight, s, "list", req, "fetch", None, total, 0, NoBody, FALSE)
       /\ UNCHANGED <<table, session, now, resp, pre, deleted, gen>>

\* list_items, from the data query on: the page of rows and the response.
ListItemsFetch(s) ==
    /\ flight[s].op = "list" /\ flight[s].pc = "fetch"
    /\ LET page == flight[s].req.page
           per_page == flight[s].req.per_page
           total == flight[s].total
           data_query == apply_filters(<<>>, BotFilterConfig, flight[s].req.filters)
           offset == Offset(page, per_page)
           pages == Pages(total, per_page)
       IN \E ordered \in OrderBy(Select(table, data_query), sort_columns) :
             LET items == OffsetLimit(ordered, offset, per_page)
             IN flight' = Finish(flight, s, 200,
                             [ items    |-> [i \in 1..Len(items) |-> BotResponse(items[i])],
                               total    |-> total,
                               page     |-> page,
                               per_page |-> per_page,
                               pages    |-> pages ])
    /\ UNCHANGED <<table, session, now, resp, pre, deleted, gen>>

\* The response of slot s has been sent and its session closed: the worker
\* takes the next request.
Deliver(s) ==
    /\ flight[s].pc = "done"
    /\ flight' = [flight EXCEPT ![s] = Idle]
    /\ UNCHANGED <<table, session, now, resp, pre, deleted, gen>>

\* The Bot resource under concurrent updates, deletes and lists, its rows
\* stored by bot_factory.
NextConc ==
    \/ Tick
    \/ \E choice \in ConcChoices, o \in ConcOverrides, t \in now..Min(now + 1, MaxTime) :
           FactoryFlush("rig-001", FALSE, None, None, o[1], o[2], choice, t)
    \/ FactoryCommit
    \/ FactoryRefresh
    \/ \E s \in Slots, item_id \in ConcIds, body \in ConcUpdateBodies :
           UpdateItemArrive(s, item_id, body)
    \/ \E s \in Slots : UpdateItemGet(s)
    \/ \E s \in Slots : UpdateItemCommit(s)
    \/ \E s \in Slots : UpdateItemRefresh(s)
    \/ \E s \in Slots, item_id \in ConcIds : DeleteItemArrive(s, item_id)
    \/ \E s \in Slots : DeleteItemGet(s)
    \/ \E s \in Slots : DeleteItemCommit(s)
    \/ \E s \in Slots, pg \in ConcPaging : ListItemsCount(s, pg[1], pg[2], NoFilters)
    \/ \E s \in Slots : ListItemsFetch(s)
    \/ \E s \in Slots : Deliver(s)

SpecConc == Init /\ [][NextConc]_vars

\* Creates served side by side: the Gadget resource whose name is unique,
\* and the Bot resource.
NextRace ==
    \/ Tick
    \/ \E s \in Slots, model \in RaceModels, choice \in ConcChoices,
          t \in now..Min(now + 1, MaxTime) :
           \E body \in RaceBodies(model) : CreateItemAdd(s, model, body, choice, t)
    \/ \E s \in Slots : CreateItemCommit(s)
    \/ \E s \in Slots : CreateItemRefresh(s)
    \/ \E s \in Slots : Deliver(s)

SpecRace == Init /\ [][NextRace]_vars

----------------------------------------------------------------------------
(* Properties *)

Ids(tbl) == {r.id : r \in tbl}
Row(tbl, id) == CHOOSE r \in tbl : r.id = id
IdOps == {"get", "update", "delete"}

TypeOK ==
    /\ now \in 0..MaxTime
    /\ Len(session.new) <= 1
    /\ \A r \in table : r.create_at <= r.last_update_at /\ r.last_update_at <= now
    /\ Cardinality(Ids(table)) = Cardinality(table)

\* C1: a create that hits an integrity conflict (the generated id or the
\* unique name is already stored) answers 409, persists nothing (the table
\* is what it was when the request arrived), and leaves the session clean;
\* the next valid create on that session whose id and name are free answers
\* 201 and stores its record.
C1_Taken(tbl, req) ==
    \/ req.generated \in Ids(tbl)
    \/ \E r \in tbl : r.name = Val(req.body["name"])
C1_ConflictRecovery ==
    [][ /\ (resp'.op = "create" /\ resp'.status = 409)
            => /\ table' = pre'
               /\ session' = CleanSession
               /\ C1_Taken(pre', resp'.req)
        /\ ( /\ resp.op = "create" /\ resp.status = 409
             /\ resp'.op = "create"
             /\ GadgetCreateValid(resp'.req.body)
             /\ ~C1_Taken(table, resp'.req) )
            => /\ resp'.status = 201
               /\ Ids(table') = Ids(table) \cup {resp'.req.generated}
               /\ table \subseteq table'
      ]_vars

\* A create was refused for its name alone (its id was free) and the table
\* holds what it held.
C1_Witness ==
    /\ resp.op = "create" /\ resp.status = 409
    /\ resp.req.generated \notin Ids(table)
    /\ table = pre /\ table # {}
    /\ session = CleanSession

\* C2: a successful update leaves every schema field absent from the body
\* at its stored value, overwrites a field present with a non-null value,
\* and stores NULL for a nullable field present with an explicit null.
C2_PartialUpdate ==
    (resp.op = "update" /\ resp.status = 200) =>
        LET old == Row(pre, resp.req.id)
            new == Row(table, resp.req.id)
            body == resp.req.body
        IN /\ \A k \in BotUpdateFields :
                IF Has(body, k)
                THEN (IF k \in NullableColumns
                      THEN new[k] = body[k]
                      ELSE new[k] = Val(body[k]))
                ELSE new[k] = old[k]
           /\ new.last_run_at = old.last_run_at
           /\ resp.body = BotResponse(new)

C2_Witness ==
    /\ resp.op = "update" /\ resp.status = 200
    /\ Has(resp.req.body, "last_run_log") /\ IsNone(resp.req.body["last_run_log"])
    /\ ~Has(resp.req.body, "rig_id")
    /\ ~IsNone(Row(pre, resp.req.id).last_run_log)
    /\ IsNone(Row(table, resp.req.id).last_run_log)
    /\ Row(table, resp.req.id).rig_id = Row(pre, resp.req.id).rig_id

\* C3: an update with the empty body {} on an existing record answers 200,
\* leaves every data field unchanged and sets last_update_at to the time of
\* the update.
C3_EmptyUpdateTouches ==
    (resp.op = "update" /\ resp.status = 200 /\ DOMAIN resp.req.body = {}) =>
        LET old == Row(pre, resp.req.id)
            new == Row(table, resp.req.id)
        IN /\ new.rig_id = old.rig_id
           /\ new.kill_switch = old.kill_switch
           /\ new.last_run_log = old.last_run_log
           /\ new.last_run_at = old.last_run_at
           /\ new.last_update_at = resp.at

\* C4: an update whose body has an explicit null for rig_id or kill_switch
\* answers 422 and leaves the table as it was, whatever record it addresses.
C4_NullRejected ==
    ( /\ resp.op = "update"
      /\ \E k \in {"rig_id", "kill_switch"} :
            Has(resp.req.body, k) /\ IsNone(resp.req.body[k]) )
    => (resp.status = 422 /\ table = pre)

C4_Witness ==
    /\ resp.op = "update" /\ resp.status = 422
    /\ resp.req.id \in Ids(pre)
    /\ Has(resp.req.body, "kill_switch") /\ IsNone(resp.req.body["kill_switch"])
    /\ table = pre

C6_WellFormed(s) ==
    Len(s) = 32 /\ \A i \in 1..Len(s) : s[i] \in (Digits \cup LowerLetters \cup UpperLetters)
C6_NotFoundShape ==
    /\ ( /\ resp.op \in IdOps
         /\ C6_WellFormed(resp.req.id)
         /\ resp.req.id \notin Ids(pre)
         /\ resp.op = "update" => BotUpdateValid(resp.req.body) )
       => resp.status = 404
    /\ resp.status = 404
       => /\ resp.op \in IdOps
          /\ resp.req.id \notin Ids(pre)
          /\ resp.body = [detail |-> [message |-> "Bot not found", id |-> resp.req.id]]
          /\ table = pre

C6_Witness ==
    /\ resp.op = "update" /\ resp.status = 404
    /\ resp.body.detail.id = resp.req.id
    /\ table # {}

\* C7: Get, Update and Delete give the same verdict on the format of an id:
\* an id that is not exactly 32 characters of [a-zA-Z0-9] is answered 422 by
\* each of them whatever the table holds (never 404) and nothing changes;
\* an id of that form is never answered 422 on account of the id.
C7_IdFormatParity ==
    resp.op \in IdOps =>
        IF Len(resp.req.id) = 32
           /\ \A i \in 1..Len(resp.req.id) :
                 resp.req.id[i] \in (Digits \cup LowerLetters \cup UpperLetters)
        THEN resp.status = 422 => (resp.op = "update" /\ ~BotUpdateValid(resp.req.body))
        ELSE resp.status = 422 /\ table = pre

C7_Witness ==
    /\ resp.op = "delete" /\ resp.status = 422
    /\ Len(resp.req.id) = 33
    /\ table # {}

\* The filters a list request supplied, read off the request directly.
RefMatches(r, fv) ==
    /\ IsNone(fv["rig_id"]) \/ r.rig_id = Val(fv["rig_id"])
    /\ IsNone(fv["kill_switch"]) \/ r.kill_switch = Val(fv["kill_switch"])
    /\ IsNone(fv["create_at_after"]) \/ r.create_at >= Val(fv["create_at_after"])
    /\ IsNone(fv["create_at_before"]) \/ r.create_at <= Val(fv["create_at_before"])
    /\ IsNone(fv["last_update_at_after"]) \/ r.last_update_at >= Val(fv["last_update_at_after"])
    /\ IsNone(fv["last_update_at_before"]) \/ r.last_update_at <= Val(fv["last_update_at_before"])
    /\ IsNone(fv["last_run_at_after"])
          \/ (~IsNone(r.last_run_at) /\ Val(r.last_run_at) >= Val(fv["last_run_at_after"]))
    /\ IsNone(fv["last_run_at_before"])
          \/ (~IsNone(r.last_run_at) /\ Val(r.last_run_at) <= Val(fv["last_run_at_before"]))
RefMatching(tbl, fv) == {r \in tbl : RefMatches(r, fv)}

\* Number of rows of S listed before r: newer create_at first, larger id
\* first among equal create_at.
RefRank(r, S) ==
    Cardinality({q \in S : \/ q.create_at > r.create_at
                           \/ (q.create_at = r.create_at /\ StrLess(r.id, q.id))})

\* ceil(total / per_page), as the least page count that holds total rows.
RefCeil(total, per_page) ==
    IF total = 0 THEN 0
    ELSE CHOOSE n \in 1..total : n * per_page >= total /\ (n - 1) * per_page < total

\* C8: in a list response total is the number of stored records matching
\* the supplied filters, whatever page and per_page are, and items are the
\* matching records at positions (page-1)*per_page .. (page-1)*per_page +
\* per_page - 1 of the sorted order, so there are at most per_page of them.
C8_TotalAndWindow ==
    (resp.op = "list" /\ resp.status = 200 /\ IsNone(resp.req.filters["log_search"])) =>
        LET m == RefMatching(table, resp.req.filters)
            first == (resp.req.page - 1) * resp.req.per_page
            items == resp.body.items
        IN /\ table = pre
           /\ resp.body.total = Cardinality(m)
           /\ Len(items) <= resp.req.per_page
           /\ Len(items) = Cardinality({r \in m : RefRank(r, m) >= first
                                               /\ RefRank(r, m) < first + resp.req.per_page})
           /\ \A i \in 1..Len(items) :
                 \E r \in m : RefRank(r, m) = first + i - 1 /\ items[i] = BotResponse(r)

C8_Witness ==
    /\ resp.op = "list" /\ resp.status = 200
    /\ resp.req.page = 2 /\ resp.req.per_page = 1
    /\ ~IsNone(resp.req.filters["rig_id"])
    /\ Cardinality(table) = 3
    /\ resp.body.total = 2
    /\ Len(resp.body.items) = 1

\* C9: pages = ceil(total / per_page) when total > 0 and 0 when total = 0,
\* for every total >= 0 and per_page in 1..100.
C9_PagesIsCeil ==
    (resp.op = "pages" /\ resp.status = 200) =>
        resp.body.pages = RefCeil(resp.req.total, resp.req.per_page)

C9_Witness ==
    /\ resp.op = "pages" /\ resp.status = 200
    /\ resp.req.total = 41 /\ resp.req.per_page = 20
    /\ resp.body.pages = 3

\* C10: a valid list request for a page beyond the last page answers 200
\* with no items, the total and pages of the filter, and the page number as
\* requested.
C10_BeyondLastPage ==
    ( /\ resp.op = "list"
      /\ resp.req.page >= 1 /\ resp.req.per_page >= 1 /\ resp.req.per_page <= 100
      /\ IsNone(resp.req.filters["log_search"])
      /\ resp.req.page > RefCeil(Cardinality(RefMatching(pre, resp.req.filters)),
                                 resp.req.per_page) )
    => /\ resp.status = 200
       /\ resp.body.items = <<>>
       /\ resp.body.total = Cardinality(RefMatching(pre, resp.req.filters))
       /\ resp.body.pages = RefCeil(resp.body.total, resp.req.per_page)
       /\ resp.body.page = resp.req.page
       /\ resp.body.per_page = resp.req.per_page

C10_Witness ==
    /\ resp.op = "list" /\ resp.status = 200
    /\ resp.req.page = 4 /\ resp.req.per_page = 1
    /\ resp.body.total = 3 /\ resp.body.pages = 3
    /\ resp.body.items = <<>>
    /\ resp.body.page = 4

\* C11: a list request with page < 1 or per_page outside 1..100 answers 422
\* and reads nothing; a list response that carries a page never carries
\* per_page > 100, per_page < 1 or page < 1, and echoes page and per_page as
\* they were requested (no clamping).
C11_RangeRejected ==
    resp.op = "list" =>
        /\ (resp.req.page < 1 \/ resp.req.per_page < 1 \/ resp.req.per_page > 100)
              => (resp.status = 422 /\ resp.body = NoBody /\ table = pre)
        /\ resp.status = 200
              => /\ resp.body.page >= 1
                 /\ resp.body.per_page >= 1 /\ resp.body.per_page <= 100
                 /\ resp.body.page = resp.req.page
                 /\ resp.body.per_page = resp.req.per_page

C11_Witness ==
    /\ resp.op = "list" /\ resp.status = 422
    /\ resp.req.per_page = 101 /\ resp.req.page = 1
    /\ table # {}

\* C12: a list request repeated with the same page, per_page and filters
\* while the table has not changed returns the same body, items in the same
\* order, also when rows share their create_at.
C12_Deterministic ==
    [][ ( /\ resp.op = "list" /\ resp.status = 200
          /\ resp'.op = "list" /\ resp'.req = resp.req
          /\ table = pre /\ table' = table )
        => resp'.body = resp.body ]_vars

C12_Witness ==
    /\ resp.op = "list" /\ resp.status = 200
    /\ Len(resp.body.items) >= 2
    /\ resp.body.items[1].create_at = resp.body.items[2].create_at
    /\ resp.body.items[1].id # resp.body.items[2].id

\* What a request asks of a row, read off the filter values one descriptor
\* at a time.
RefSupplied(fv, p) == p \in DOMAIN fv /\ Len(fv[p]) = 1
RefContains(s, v) ==
    \E i \in 0..(Len(s) - Len(v)) :
        \A k \in 1..Len(v) : LowerChar(s[i + k]) = LowerChar(v[k])
RefExact(r, fv, col) == RefSupplied(fv, col) => r[col] = fv[col][1]
RefSubstring(r, fv) ==
    RefSupplied(fv, "log_search")
        => (Len(r.last_run_log) = 1 /\ RefContains(r.last_run_log[1], fv["log_search"][1]))
RefColumn(r, col) == IF col = "last_run_at" THEN r[col] ELSE <<r[col]>>
RefDateRange(r, fv, col) ==
    /\ RefSupplied(fv, col \o "_after")
          => (Len(RefColumn(r, col)) = 1 /\ RefColumn(r, col)[1] >= fv[col \o "_after"][1])
    /\ RefSupplied(fv, col \o "_before")
          => (Len(RefColumn(r, col)) = 1 /\ RefColumn(r, col)[1] <= fv[col \o "_before"][1])
RefDateColumns == {"create_at", "last_update_at", "last_run_at"}

\* C13: the rows apply_filters lets through are exactly the rows that meet
\* the predicate of every descriptor a value was supplied for; a parameter
\* that is absent or None restricts nothing, so without supplied values the
\* result is the whole table.
C13_FiltersAreAnd ==
    resp.op = "filter" =>
        LET fv == resp.req.filters
        IN /\ resp.body.rows =
                {r \in table : /\ RefExact(r, fv, "rig_id")
                               /\ RefExact(r, fv, "kill_switch")
                               /\ RefSubstring(r, fv)
                               /\ \A col \in RefDateColumns : RefDateRange(r, fv, col)}
           /\ (\A p \in DOMAIN fv : ~RefSupplied(fv, p)) => resp.body.rows = table

C13_Witness ==
    /\ resp.op = "filter"
    /\ RefSupplied(resp.req.filters, "rig_id")
    /\ RefSupplied(resp.req.filters, "kill_switch")
    /\ resp.body.rows # {}
    /\ \E r \in table \ resp.body.rows :
          r.rig_id = resp.req.filters["rig_id"][1]
    /\ \E r \in table \ resp.body.rows :
          r.kill_switch = resp.req.filters["kill_switch"][1]

\* C14: with only a substring value v supplied, a row is let through iff
\* its last_run_log contains v as a literal substring, letter case aside;
\* that holds for v containing %, _ or the backslash, so "%" lets through
\* only the rows whose log has a percent sign, and "_" likewise.
C14_LiteralSubstring ==
    ( /\ resp.op = "filter"
      /\ \A p \in DOMAIN resp.req.filters :
            RefSupplied(resp.req.filters, p) => p = "log_search" )
    => resp.body.rows = {r \in table : RefSubstring(r, resp.req.filters)}

C14_Witness ==
    /\ resp.op = "filter"
    /\ RefSupplied(resp.req.filters, "log_search")
    /\ resp.req.filters["log_search"][1] = <<"%">>
    /\ Cardinality(resp.body.rows) = 1
    /\ Cardinality({r \in table : Len(r.last_run_log) = 1}) >= 3

\* C15: the _after and _before values of a date range are looked up
\* independently and both bounds are inclusive: with only date values
\* supplied a row is let through iff, for each date column, (no _after
\* value or column >= after) and (no _before value or column <= before).
C15_InclusiveRange ==
    ( /\ resp.op = "filter"
      /\ \A p \in DOMAIN resp.req.filters :
            RefSupplied(resp.req.filters, p)
                => \E col \in RefDateColumns : p \in {col \o "_after", col \o "_before"} )
    => resp.body.rows =
          {r \in table : \A col \in RefDateColumns : RefDateRange(r, resp.req.filters, col)}

C15_Witness ==
    /\ resp.op = "filter"
    /\ RefSupplied(resp.req.filters, "create_at_after")
    /\ ~RefSupplied(resp.req.filters, "create_at_before")
    /\ \E r \in resp.body.rows : r.create_at = resp.req.filters["create_at_after"][1]
    /\ \E r \in table \ resp.body.rows : r.create_at < resp.req.filters["create_at_after"][1]

\* The keys a create body may carry for the fields the system manages.
C16_AutoKeys == {"id", "create_at", "last_update_at"}

\* A create body that carries a usable rig_id (and no null kill_switch).
C16_Acceptable(body) ==
    /\ "rig_id" \in DOMAIN body /\ Len(body["rig_id"]) = 1
    /\ "kill_switch" \in DOMAIN body => Len(body["kill_switch"]) = 1

\* C16: a create of a Bot takes id, create_at and last_update_at from the
\* system: with or without values for them in the body the request answers
\* 201 (409 when the drawn id is taken), the id returned and stored is the
\* one generate_id drew, and the two timestamps are clock readings made
\* while the request is served.
C16_AutoFieldsFromSystem ==
    ( /\ resp.op = "create" /\ C16_Acceptable(resp.req.body) )
    => /\ resp.status = IF resp.req.generated \in Ids(pre) THEN 409 ELSE 201
       /\ resp.status = 201 =>
             /\ resp.body.id = resp.req.generated
             /\ resp.body.create_at = resp.at
             /\ resp.body.last_update_at >= resp.at /\ resp.body.last_update_at <= now
             /\ table = pre \cup {Row(table, resp.req.generated)}
             /\ resp.body = BotResponse(Row(table, resp.req.generated))

\* C17: whatever request is served, a record that stays stored keeps its id
\* and its create_at; an update, whatever keys its body has, leaves the set
\* of stored ids as it was.
C17_IdAndCreateAtFixed ==
    [][ /\ \A r \in table : \A q \in table' :
              q.id = r.id => q.create_at = r.create_at
        /\ resp'.op = "update" => Ids(table') = Ids(table)
      ]_vars

C17_Witness ==
    /\ resp.op = "update" /\ resp.status = 200
    /\ {"id", "create_at"} \subseteq DOMAIN resp.req.body
    /\ resp.req.body["id"][1] # resp.req.id
    /\ resp.req.body["create_at"][1] # Row(pre, resp.req.id).create_at
    /\ Row(table, resp.req.id).rig_id # Row(pre, resp.req.id).rig_id
    /\ Row(table, resp.req.id).create_at = Row(pre, resp.req.id).create_at
    /\ Ids(table) = Ids(pre)

\* A served update that answered 200 and changed the value of a field.
C18_ChangingUpdate ==
    /\ resp.op = "update" /\ resp.status = 200
    /\ \E k \in {"rig_id", "kill_switch", "last_run_log"} :
          Row(table, resp.req.id)[k] # Row(pre, resp.req.id)[k]

\* C18 (as stated): a successful update that changes a field sets
\* last_update_at to the time of the update, and the value is strictly later
\* after the update than before it.
C18_StrictlyLater ==
    C18_ChangingUpdate =>
        /\ Row(table, resp.req.id).last_update_at = resp.at
        /\ Row(table, resp.req.id).last_update_at > Row(pre, resp.req.id).last_update_at

\* C18 (amended): a successful update that changes a field sets
\* last_update_at to the clock reading of the update.  With a clock that does
\* not run backwards, no request makes a stored record's last_update_at
\* decrease, and the value is strictly later after such an update exactly
\* when the clock has advanced since the previous value was written.
C18_TouchedNotDecreasing ==
    /\ C18_ChangingUpdate =>
          /\ Row(table, resp.req.id).last_update_at = resp.at
          /\ (Row(table, resp.req.id).last_update_at > Row(pre, resp.req.id).last_update_at)
                <=> (resp.at > Row(pre, resp.req.id).last_update_at)
    /\ resp.op \in {"update", "get", "list", "delete"} =>
          \A r \in pre : \A q \in table :
              q.id = r.id => q.last_update_at >= r.last_update_at

C18_Witness ==
    /\ C18_ChangingUpdate
    /\ Row(pre, resp.req.id).last_update_at = 0
    /\ resp.at = 1
    /\ Row(table, resp.req.id).last_update_at = 1

\* C19: the id of a deleted record is never used again: a create that
\* answers 201 never returns an id that was deleted before, and no stored
\* record carries such an id.
C19_NeverReused ==
    /\ (resp.op = "create" /\ resp.status = 201) => resp.body.id \notin deleted
    /\ \A r \in table : r.id \notin deleted

\* What the handlers do keep: a successful delete frees the id, and a
\* record with that id is stored again only by a create for which
\* generate_id draws it (such a create answers 201 and returns it).  No
\* other request brings the id back.
C19_ReusedOnlyByRedraw ==
    /\ (resp.op = "delete" /\ resp.status = 204)
          => (resp.req.id \in deleted /\ \A r \in table : r.id # resp.req.id)
    /\ ( /\ resp.op = "create" /\ GadgetCreateValid(resp.req.body)
         /\ resp.req.generated \in deleted
         /\ \A r \in pre : r.id # resp.req.generated )
          => /\ resp.status = 201
             /\ resp.body.id = resp.req.generated
             /\ \E r \in table : r.id = resp.req.generated
    /\ \A r \in table :
          (r.id \in deleted /\ \A q \in pre : q.id # r.id)
              => (resp.op = "create" /\ resp.status = 201 /\ resp.req.generated = r.id)

C19_Witness ==
    /\ resp.op = "create" /\ resp.status = 201
    /\ resp.body.id \in deleted
    /\ \E r \in table : r.id = resp.body.id
    /\ \A r \in pre : r.id # resp.body.id

\* C20: the session a request acquired is closed before the request ends,
\* on every exit path: once the handler is done, however it ended, get_db
\* reaches its end with the session closed; when an exception (a 404 or 409 of the
\* handler, or any other) was delivered the session is rolled back first,
\* and it is never closed before the handler is done.
C20_SessionReleased ==
    /\ [](gen.pc = "end" => gen.closed)
    /\ []((gen.closed /\ gen.exc # "") => gen.rolled_back)
    /\ [](gen.rolled_back => gen.exc # "")
    /\ [](gen.pc \in {"yield", "resume", "finally"} => ~gen.closed)
    /\ [](gen.pc = "finally" => gen.rolled_back)
    /\ (gen.pc = "resume") ~> (gen.pc = "end" /\ gen.closed)

C20_Witness ==
    /\ gen.pc = "end" /\ gen.closed /\ gen.rolled_back
    /\ gen.exc = "HTTPException"
    /\ resp.op = "delete" /\ resp.status = 404
    /\ table # {}
    /\ session = CleanSession

\* C23: with the default sort configuration the items of a list response
\* are ordered by create_at descending, ties broken by id descending: of two
\* consecutive items a then b, a.create_at > b.create_at, or the create_at
\* are equal and a.id > b.id.
C23_DefaultOrder ==
    (resp.op = "list" /\ resp.status = 200) =>
        \A i \in 1..(Len(resp.body.items) - 1) :
            LET a == resp.body.items[i]
                b == resp.body.items[i + 1]
            IN \/ a.create_at > b.create_at
               \/ (a.create_at = b.create_at /\ StrLess(b.id, a.id))

C23_Witness ==
    /\ resp.op = "list" /\ resp.status = 200
    /\ Len(resp.body.items) = 3
    /\ resp.body.items[1].create_at > resp.body.items[2].create_at
    /\ resp.body.items[2].create_at = resp.body.items[3].create_at
    /\ StrLess(resp.body.items[3].id, resp.body.items[2].id)
    /\ StrLess(resp.body.items[1].id, resp.body.items[2].id)

\* C24: an operation changes at most the record it addresses: after a
\* successful update or delete of id X every stored record with another id
\* is what it was when the request arrived, and a list or a get leaves the
\* whole table as it was, every last_update_at included.
C24_FrameEffect ==
    /\ (resp.op \in {"update", "delete"} /\ resp.status \in {200, 204})
          => {r \in table : r.id # resp.req.id} = {r \in pre : r.id # resp.req.id}
    /\ resp.op \in {"list", "get"} => table = pre

C24_Witness ==
    /\ resp.op = "update" /\ resp.status = 200
    /\ Cardinality(table) = 2
    /\ Row(table, resp.req.id) # Row(pre, resp.req.id)
    /\ \E r \in table : r.id # resp.req.id /\ r.last_update_at < resp.at /\ r \in pre

\* The external parameter names of one declaration, read off its fields.
C25_ExternalNames(f) ==
    LET base == IF f.param_name = <<>> THEN f.column_name ELSE f.param_name[1]
    IN IF f.filter_type = "date_range" THEN {base \o "_after", base \o "_before"}
       ELSE {base}
C25_Ambiguous(cfg) ==
    \E i, j \in 1..Len(cfg) :
        i # j /\ C25_ExternalNames(cfg[i]) \cap C25_ExternalNames(cfg[j]) # {}

\* C25: a list of filter declarations in which two external parameter
\* names coincide (the _after / _before names derived from a date range
\* included) is rejected when the read router is constructed: the
\* construction raises and yields no filter dependency, so every dependency
\* that exists has pairwise distinct parameter names.
C25_DuplicateRejected ==
    resp.op = "wired" =>
        /\ C25_Ambiguous(resp.req.filter_config)
              => (resp.body.error = "TypeError" /\ resp.body.fields = <<>>)
        /\ resp.body.error = ""
              => \A i, j \in 1..Len(resp.body.fields) :
                    resp.body.fields[i] = resp.body.fields[j] => i = j

C25_Witness ==
    /\ resp.op = "wired"
    /\ resp.req.filter_config = << FilterField("create_at", "date_range", None),
                                   FilterField("create_at_after", "exact", None) >>
    /\ resp.body.error = "TypeError"

\* The walk has fetched every page the service reported.
C26_WalkDone ==
    resp.op = "walk" /\ resp.body.page >= 1 /\ resp.body.page >= resp.body.pages

\* C26: on an unchanged table with the default sort, for any filters and
\* per_page, the items of pages 1, 2, ..., pages put one after the other are
\* the records matching the filters, each exactly once, and there are total
\* of them.
C26_PagesPartition ==
    C26_WalkDone =>
        LET m == RefMatching(table, resp.req.filters)
            items == resp.body.items
        IN /\ Len(items) = resp.body.total
           /\ resp.body.total = Cardinality(m)
           /\ {items[i] : i \in 1..Len(items)} = {BotResponse(r) : r \in m}
           /\ \A i, j \in 1..Len(items) : items[i].id = items[j].id => i = j

C26_Witness ==
    /\ C26_WalkDone
    /\ resp.req.per_page = 2 /\ resp.body.pages = 2 /\ resp.body.page = 2
    /\ resp.body.total = 3 /\ Len(resp.body.items) = 3
    /\ Cardinality(table) = 4
    /\ resp.body.items[2].create_at = resp.body.items[3].create_at

\* C29: a valid create whose generated id is the id of a stored record
\* makes its one insert attempt with that id and answers 409: no record is
\* stored under another id and the stored record is what it was; no create
\* replaces or removes a stored record, so the ids of the table stay
\* pairwise distinct.
C29_CollisionIsConflict ==
    /\ ( /\ resp.op = "create"
         /\ GadgetCreateValid(resp.req.body)
         /\ resp.req.generated \in Ids(pre) )
       => (resp.status = 409 /\ table = pre)
    /\ resp.op = "create" =>
          /\ pre \subseteq table
          /\ \A r \in table \ pre : r.id = resp.req.generated
    /\ \A r, q \in table : r.id = q.id => r = q

C29_Witness ==
    /\ resp.op = "create" /\ resp.status = 409
    /\ resp.req.generated \in Ids(pre)
    /\ Row(table, resp.req.generated).name # Val(resp.req.body["name"])
    /\ Row(table, resp.req.generated).create_at < resp.at
    /\ table = pre

\* C30 as stated: every id generate_id can produce matches the default
\* pattern, and a get, update or delete that uses the id of a stored record
\* is never answered 422 or 404.
C30_NeverRejected ==
    /\ IdLen = PatternLen /\ ID_ALPHABET \subseteq PatternClass
    /\ \A r \in table : MatchesPattern(r.id)
    /\ (resp.op \in IdOps /\ resp.req.id \in Ids(pre)) => resp.status \notin {422, 404}

\* C30: every id generate_id can produce (IdLen characters of ID_ALPHABET)
\* matches the default pattern of the three routers, so every stored record
\* has a well-formed id; a get, update or delete that uses the id of a
\* stored record is never answered 404, and is answered 422 only for an
\* update whose body is itself invalid.
C30_AddressableById ==
    /\ IdLen = PatternLen /\ ID_ALPHABET \subseteq PatternClass
    /\ resp.op \in {"create", "factory"} =>
          /\ read_id_pattern(resp.req.generated)
          /\ update_id_pattern(resp.req.generated)
          /\ delete_id_pattern(resp.req.generated)
    /\ \A r \in table : MatchesPattern(r.id)
    /\ (resp.op \in IdOps /\ resp.req.id \in Ids(pre)) =>
          /\ resp.status # 404
          /\ resp.status = 422 => (resp.op = "update" /\ ~BotUpdateValid(resp.req.body))

C30_Witness ==
    /\ resp.op = "get" /\ resp.status = 200
    /\ resp.req.id \in GeneratedIds
    /\ \E i \in 1..IdLen : resp.req.id[i] \in Digits
    /\ \E i \in 1..IdLen : resp.req.id[i] \in LowerLetters
    /\ resp.body.id = resp.req.id

\* The last request was an update whose commit failed.
C28_FailedUpdate == resp.op = "update" /\ resp.status = 500

\* C28: when the commit of an update fails at the storage layer the
\* failure reaches the client as an error response (500, the exception is
\* delivered to get_db), the stored record keeps every value it had before
\* the update, and the session of the request is rolled back and then
\* closed.
C28_CommitFailureContained ==
    /\ [](C28_FailedUpdate =>
            /\ table = pre
            /\ resp.req.id \in Ids(table)
            /\ resp.body = NoBody)
    /\ []((C28_FailedUpdate /\ gen.pc \in {"resume", "finally", "end"})
             => gen.exc = "Exception")
    /\ []((C28_FailedUpdate /\ gen.pc = "finally")
             => (gen.rolled_back /\ ~session.inactive))
    /\ []((C28_FailedUpdate /\ gen.pc = "end")
             => (gen.rolled_back /\ gen.closed /\ session = CleanSession))
    /\ (C28_FailedUpdate /\ gen.pc = "resume")
          ~> (C28_FailedUpdate /\ gen.pc = "end" /\ gen.closed)

C28_Witness ==
    /\ C28_FailedUpdate
    /\ gen.pc = "end" /\ gen.closed /\ gen.rolled_back
    /\ table = pre
    /\ Row(table, resp.req.id).rig_id # Val(resp.req.body["rig_id"])
    /\ session = CleanSession

\* Slots i and j hold the answered requests of a race: each arrived while
\* the other was being served.
C21_Raced(i, j) ==
    /\ i # j
    /\ flight[i].pc = "done" /\ flight[j].pc = "done"
    /\ j \in flight[i].with /\ i \in flight[j].with

\* Two answered creates of the Gadget whose name is unique were raced, both
\* built their instance, neither collided with a stored row when it
\* arrived, and their instances agree on the unique column col.
C21_SameValue(i, j, col) ==
    /\ C21_Raced(i, j)
    /\ flight[i].op = "create" /\ flight[j].op = "create"
    /\ flight[i].req.model = "gadgets_create" /\ flight[j].req.model = "gadgets_create"
    /\ ~IsNone(flight[i].item) /\ ~IsNone(flight[j].item)
    /\ ~flight[i].had /\ ~flight[j].had
    /\ Val(flight[i].item)[col] = Val(flight[j].item)[col]

\* C21: of two valid create requests that run concurrently, each on its own
\* session, with the same unique-constrained value (the name of the record,
\* or its id), not stored when they arrived, exactly one is answered 201 and
\* the other 409, and the table then holds exactly one record with that
\* value, the one returned to the winner.
C21_OneWinner ==
    \A i, j \in Slots : \A col \in {"id", "name"} :
        C21_SameValue(i, j, col)
        => /\ {flight[i].status, flight[j].status} = {201, 409}
           /\ Cardinality({r \in table : r[col] = Val(flight[i].item)[col]}) = 1
           /\ \A r \in table :
                 r[col] = Val(flight[i].item)[col]
                    => \E w \in {i, j} : flight[w].status = 201
                                          /\ flight[w].body = GadgetResponse(r)

C21_Witness ==
    /\ C21_SameValue(1, 2, "name")
    /\ Val(flight[1].item).id # Val(flight[2].item).id
    /\ flight[1].status = 409 /\ flight[2].status = 201
    /\ \E r \in table : GadgetResponse(r) = flight[2].body
    /\ Cardinality(table) = 1

\* Slot u holds an answered update and slot d an answered delete of the same
\* id, stored when each of them arrived; the two were served side by side
\* and no other session has committed since they arrived.
C22_Raced(u, d) ==
    /\ C21_Raced(u, d)
    /\ flight[u].op = "update" /\ flight[d].op = "delete"
    /\ flight[u].req.id = flight[d].req.id
    /\ BotUpdateValid(flight[u].req.body)
    /\ flight[u].had /\ flight[d].had
    /\ FactorySession \notin flight[u].with \cup flight[d].with

\* C22: an update that runs concurrently with a delete of the same existing
\* id is answered 200 (its write reached the table before the delete) or
\* 404 (the row was gone at its lookup) and nothing else, and once the
\* delete is answered 204 the record is not in the table.
C22_UpdateOkOrNotFound ==
    \A u, d \in Slots :
        C22_Raced(u, d) =>
            /\ flight[u].status \in {200, 404}
            /\ flight[d].status = 204 => ~(\E r \in table : r.id = flight[d].req.id)

\* The part of C22 the handlers do keep: the update of such a race never
\* brings the deleted record back.
C22_DeletedStaysDeleted ==
    \A u, d \in Slots :
        (C22_Raced(u, d) /\ flight[d].status = 204)
            => ~(\E r \in table : r.id = flight[d].req.id)

C22_Witness ==
    /\ C22_Raced(1, 2)
    /\ flight[1].status = 500 /\ flight[2].status = 204
    /\ flight[1].had /\ flight[2].had

\* C27: every list response is consistent in itself, also when other
\* requests commit creates or deletes while it is served: the number of
\* items is min(per_page, max(0, total - (page-1)*per_page)), so that total
\* and items describe the same set of matching records.
C27_ConsistentResponse ==
    \A s \in Slots :
        (flight[s].op = "list" /\ flight[s].pc = "done" /\ flight[s].status = 200) =>
            LET b == flight[s].body
                rest == b.total - (b.page - 1) * b.per_page
            IN Len(b.items) = Min(b.per_page, IF rest > 0 THEN rest ELSE 0)

\* What list_items does keep: a list response served with no request
\* beside it is consistent in itself.
C27_ConsistentWhenAlone ==
    \A s \in Slots :
        ( /\ flight[s].op = "list" /\ flight[s].pc = "done" /\ flight[s].status = 200
          /\ flight[s].with = {} ) =>
            LET b == flight[s].body
                rest == b.total - (b.page - 1) * b.per_page
            IN Len(b.items) = Min(b.per_page, IF rest > 0 THEN rest ELSE 0)

====
